---- MODULE Spec2Model ----
(***************************************************************************)
(* CasADi IntegratorInternal (symbolic/fx/integrator_internal.cpp): the    *)
(* dimension bookkeeping of an integrator, the offsets of the augmented   *)
(* DAE, the augmented-DAE builder, the derivative-function assembler and  *)
(* the structural (bit-vector) propagation, the lifecycle of evaluate(),   *)
(* and the options registry (casadi/options_functionality.cpp) that the    *)
(* integrator reads its settings from.                                     *)
(*                                                                         *)
(* A matrix is modelled by what the code reads of it: size1 (its number    *)
(* of rows) and size (its number of structural nonzeros).  The two differ  *)
(* for a sparse or a multi-column matrix, and the code reads both: the     *)
(* dimensions nx_, nz_, ... are size(), the offsets are built from         *)
(* size1().                                                                *)
(***************************************************************************)
EXTENDS Integers, Sequences, FiniteSets, TLC

\* ---------------------------------------------------------------- bounds
\* Total number of rows over the eight ports of the two DAE callbacks.
MaxTotal == 3
\* Number of columns of the widest port.
MaxCols == 2
\* Largest number of forward directions requested of a builder.
MaxFwd == 1
\* Largest number of adjoint directions requested of a builder.
MaxAdj == 1
\* Total number of elements over the eight ports of the two callbacks of an
\* integrator whose structural propagation is followed.
MaxSpTotal == 3
\* Largest number of elements of the integrator's inputs and outputs on
\* which the caller sets a dependency bit before a propagation.
MaxSeeds == 2
\* Total number of rows over the eight ports of the two callbacks of an
\* integrator whose init() and evaluate() are followed.
MaxLifeTotal == 2
\* Total number of elements over the eight ports of the two callbacks of an
\* integrator whose builder calls are followed one after the other.
MaxPureTotal == 2
\* Total number of elements over the eight ports of the two callbacks of an
\* integrator whose propagation is compared with runs on other inputs.
MaxFlowTotal == 2

VARIABLES
  f_,          \* the forward DAE callback: its ports
  g_,          \* the backward DAE callback, possibly null
  phase,       \* "constructed" until init() has completed, then "initialized"
  nx_, nz_, nq_, np_, nrx_, nrz_, nrq_, nrp_,   \* the dimension members
  input_,      \* the integrator's input buffers  x0, p, z0, rx0, rp, rz0
  output_,     \* the integrator's output buffers xf, qf, zf, rxf, rqf, rzf
  call,        \* the last operation called, with its arguments
  offset,      \* the AugOffset produced by the last builder call
  aug,         \* what the last getAugmented built
  der,         \* what the last getDerivative built
  jac,         \* the structural Jacobians of the two callbacks
  bv,          \* the dependency bits held by the integrator's inputs and outputs
  buf,         \* the dependency bits held by the callbacks' and solvers' buffers
  ops,         \* the last two propagations run, oldest first
  prev,        \* the bits of the inputs and outputs before the last propagation
  allowed_options,   \* the registered option names, each with its type
  options,     \* the option values: a map from names to values
  t0_, tf_,    \* the time horizon read from the options by init()
  t_,          \* the current time
  pc,          \* the position of the evaluate() in progress, "idle" if none
  calls,       \* the calls made into the numeric collaborator by the last evaluate()
  error,       \* the exception raised by the last init(), evaluate() or registry
               \* call, "none" if it returned
  result,      \* the last call on the registry, with what it was given or returned
  kept         \* the AugOffset the caller kept from the first call with given arguments

vars == <<f_, g_, phase, nx_, nz_, nq_, np_, nrx_, nrz_, nrq_, nrp_,
          input_, output_, call, offset, aug, der, jac, bv, buf, ops, prev,
          allowed_options, options, t0_, tf_, t_, pc, calls, error, result, kept>>

\* What the builders leave alone.
spvars == <<jac, bv, buf, ops, prev>>

\* What the structural propagation leaves alone.
buildvars == <<call, offset, aug, der>>

dims == <<nx_, nz_, nq_, np_, nrx_, nrz_, nrq_, nrp_>>

\* The options registry.
registry == <<allowed_options, options>>

\* The time horizon and the current time.
times == <<t0_, tf_, t_>>

\* What only evaluate() and the registry's queries write.
lifevars == <<pc, calls, result>>

\* ---------------------------------------------------------------- matrices
\* A matrix: size1 rows, size structural nonzeros.
Matrix(r, n) == [size1 |-> r, size |-> n]

\* A default-constructed (empty, 0-by-0) matrix.
EmptyMatrix == Matrix(0, 0)

\* The matrices with r rows that a port is drawn from: structurally empty,
\* r nonzeros (a dense column vector), or dense with MaxCols columns.
MatricesWithRows(r) == {Matrix(r, 0), Matrix(r, r), Matrix(r, r * MaxCols)}

Max(a, b) == IF a >= b THEN a ELSE b

Last(s) == s[Len(s)]

\* ------------------------------------------------------------- AugOffset
NoOffset == [x |-> <<>>, z |-> <<>>, q |-> <<>>, p |-> <<>>,
             rx |-> <<>>, rz |-> <<>>, rq |-> <<>>, rp |-> <<>>]

OffsetNames == {"x", "z", "q", "p", "rx", "rz", "rq", "rp"}

\* Mutant of PushIf: the push is not guarded by the dimension.
PushIf_Unguarded(ret, cond, name, v) == [ret EXCEPT ![name] = Append(@, v)]

\* std::vector::push_back on one of the eight sequences, when cond holds.
PushIf(ret, cond, name, v) ==
  IF cond THEN [ret EXCEPT ![name] = Append(@, v)] ELSE ret

\* One pass of the loop "Count nondifferentiated and forward sensitivities".
CountFwdBody(ret) ==
  LET r1 == PushIf(ret, nx_ > 0, "x", input_.x0.size1)
      r2 == PushIf(r1, nz_ > 0, "z", input_.z0.size1)
      r3 == PushIf(r2, nq_ > 0, "q", output_.qf.size1)
      r4 == PushIf(r3, np_ > 0, "p", input_.p.size1)
      r5 == PushIf(r4, nrx_ > 0, "rx", input_.rx0.size1)
      r6 == PushIf(r5, nrz_ > 0, "rz", input_.rz0.size1)
      r7 == PushIf(r6, nrq_ > 0, "rq", output_.rqf.size1)
      r8 == PushIf(r7, nrp_ > 0, "rp", input_.rp.size1)
  IN r8

\* Mutant of CountAdjBody: the adjoint blocks are appended without the swap
\* between forward and backward vectors.
CountAdjBody_NoSwap(ret) ==
  LET r1 == PushIf(ret, nx_ > 0, "x", input_.x0.size1)
      r2 == PushIf(r1, nz_ > 0, "z", input_.z0.size1)
      r3 == PushIf(r2, np_ > 0, "p", input_.p.size1)
      r4 == PushIf(r3, nq_ > 0, "q", output_.qf.size1)
      r5 == PushIf(r4, nrx_ > 0, "rx", input_.rx0.size1)
      r6 == PushIf(r5, nrz_ > 0, "rz", input_.rz0.size1)
      r7 == PushIf(r6, nrp_ > 0, "rp", input_.rp.size1)
      r8 == PushIf(r7, nrq_ > 0, "rq", output_.rqf.size1)
  IN r8

\* One pass of the loop "Count adjoint sensitivities".
CountAdjBody(ret) ==
  LET r1 == PushIf(ret, nx_ > 0, "rx", input_.x0.size1)
      r2 == PushIf(r1, nz_ > 0, "rz", input_.z0.size1)
      r3 == PushIf(r2, np_ > 0, "rq", input_.p.size1)
      r4 == PushIf(r3, nq_ > 0, "rp", output_.qf.size1)
      r5 == PushIf(r4, nrx_ > 0, "x", input_.rx0.size1)
      r6 == PushIf(r5, nrz_ > 0, "z", input_.rz0.size1)
      r7 == PushIf(r6, nrp_ > 0, "q", input_.rp.size1)
      r8 == PushIf(r7, nrq_ > 0, "p", output_.rqf.size1)
  IN r8

\* for(int dir=-1; dir<nfwd; ++dir)
RECURSIVE CountFwd(_, _, _)
CountFwd(ret, dir, nfwd) ==
  IF dir < nfwd THEN CountFwd(CountFwdBody(ret), dir + 1, nfwd) ELSE ret

\* for(int dir=0; dir<nadj; ++dir)
RECURSIVE CountAdj(_, _, _)
CountAdj(ret, dir, nadj) ==
  IF dir < nadj THEN CountAdj(CountAdjBody(ret), dir + 1, nadj) ELSE ret

\* Mutant of Cumulate: the loop stops one element early.
RECURSIVE Cumulate_StopsEarly(_, _)
Cumulate_StopsEarly(v, i) ==
  IF i < Len(v) - 1
  THEN Cumulate_StopsEarly([v EXCEPT ![i + 1] = v[i + 1] + v[i]], i + 1)
  ELSE v

\* for(int i=1; i<v.size(); ++i) v[i] += v[i-1];
RECURSIVE Cumulate(_, _)
Cumulate(v, i) ==
  IF i < Len(v)
  THEN Cumulate([v EXCEPT ![i + 1] = v[i + 1] + v[i]], i + 1)
  ELSE v

\* IntegratorInternal::getAugOffset(nfwd, nadj)
getAugOffset(nfwd, nadj) ==
  LET ret0 == [n \in OffsetNames |-> <<0>>]
      ret1 == CountFwd(ret0, -1, nfwd)
      ret2 == CountAdj(ret1, 0, nadj)
  IN [n \in OffsetNames |-> Cumulate(ret2[n], 1)]

\* ------------------------------------------------------- options registry
\* A null GenericType: what GenericType() constructs.
NullOption == "null"

\* std::map: an empty map, membership of a key, and map[k] = v, which
\* inserts the key or overwrites its value.
EmptyMap == [n \in {} |-> NullOption]
Has(map, k) == k \in DOMAIN map
Put(map, k, v) == [n \in DOMAIN map \cup {k} |-> IF n = k THEN v ELSE map[n]]

\* A registry: the two maps of an OptionsFunctionalityNode, and the
\* exception that the last call on it raised ("none" when it returned).
Registry(allowed, opts, e) == [allowed |-> allowed, options |-> opts, error |-> e]

\* OptionsFunctionalityNode::addOption(name, type, def_val)
addOption(r, name, type, def_val) ==
  [r EXCEPT !.allowed = Put(@, name, type),
            !.options = IF def_val # NullOption THEN Put(@, name, def_val) ELSE @]

\* Mutant of setOption: the value is saved before the name is looked up.
setOption_SavesFirst(r, name, op) ==
  IF ~Has(r.allowed, name)
  THEN [r EXCEPT !.options = Put(@, name, op), !.error = "Unknown option"]
  ELSE [r EXCEPT !.options = Put(@, name, op), !.error = "none"]

\* OptionsFunctionalityNode::setOption(name, op)
setOption(r, name, op) ==
  IF ~Has(r.allowed, name)
  THEN [r EXCEPT !.error = "Unknown option"]
  ELSE [r EXCEPT !.options = Put(@, name, op), !.error = "none"]

\* OptionsFunctionalityNode::getOption(name): the value returned, or the
\* exception.
getOption(opts, name) ==
  IF ~Has(opts, name)
  THEN [error |-> "has not been set", value |-> NullOption]
  ELSE [error |-> "none", value |-> opts[name]]

\* OptionsFunctionalityNode::hasOption(str)
hasOption(allowed, str) == Has(allowed, str)

\* OptionsFunctionalityNode::hasSetOption(str): the boolean returned, or
\* the exception.
hasSetOption(r, str) ==
  IF ~hasOption(r.allowed, str)
  THEN [error |-> "no such option", value |-> FALSE]
  ELSE [error |-> "none", value |-> Has(r.options, str)]

\* The option names that a registry is followed on, in the order in which
\* a std::map<std::string, Option> iterates over them.
OptionNames == <<"abstol", "name", "tf">>

\* Mutant of CopyFrom: the names are all looked up before any value is
\* saved, so that a failing copy saves nothing.
CopyFrom_ChecksFirst(r, src, i) ==
  IF \E n \in DOMAIN src : ~Has(r.allowed, n)
  THEN [r EXCEPT !.error = "Unknown option"]
  ELSE [r EXCEPT !.options = [n \in DOMAIN r.options \cup DOMAIN src |->
                                IF Has(src, n) THEN src[n] ELSE r.options[n]],
                 !.error = "none"]

\* for(it=obj->options.begin(); it!=obj->options.end(); ++it)
\*   setOption(it->first, it->second);
\* from the i-th name on; the exception of a setOption leaves the loop.
RECURSIVE CopyFrom(_, _, _)
CopyFrom(r, src, i) ==
  IF i > Len(OptionNames) THEN [r EXCEPT !.error = "none"]
  ELSE IF ~Has(src, OptionNames[i]) THEN CopyFrom(r, src, i + 1)
  ELSE LET r1 == setOption(r, OptionNames[i], src[OptionNames[i]])
       IN IF r1.error # "none" THEN r1 ELSE CopyFrom(r1, src, i + 1)

\* OptionsFunctionalityNode::copyOptions(obj), obj holding the values src.
copyOptions(r, src) == CopyFrom(r, src, 1)

\* OptionsFunctionalityNode::OptionsFunctionalityNode()
NewRegistry ==
  addOption(Registry(EmptyMap, EmptyMap, "none"),
            "name", "OT_STRING", "unnamed_shared_object")

\* The registry that IntegratorInternal::IntegratorInternal leaves.
IntegratorRegistry ==
  LET r1 == setOption(NewRegistry, "name", "unnamed_integrator")
      r2 == addOption(r1, "print_stats", "OT_BOOLEAN", "false")
      r3 == addOption(r2, "t0", "OT_REAL", "0.0")
      r4 == addOption(r3, "tf", "OT_REAL", "1.0")
      r5 == addOption(r4, "augmented_options", "OT_DICTIONARY", NullOption)
      r6 == addOption(r5, "expand_augmented", "OT_BOOLEAN", "true")
  IN r6

\* The last call on the registry: the operation, the name it was given,
\* and the value it was given or returned.
NoResult == [op |-> "none", name |-> "", value |-> NullOption]

\* GenericType's conversions to double and to bool, on the values that the
\* integrator's options take.
toDouble(v) == CASE v = "0.0" -> 0 [] v = "1.0" -> 1
toBool(v) == v = "true"

\* ------------------------------------------------------------ construction
NoCall == [op |-> "none", nfwd |-> 0, nadj |-> 0]
NoAug == [built |-> FALSE]
NoDer == [built |-> FALSE]

\* The forward callbacks: ports x, z, p and the quadrature output, each a
\* matrix.  ODE and ALG outputs have the sparsity of x and z (the checks of
\* init()).
\* The backward callbacks: ports rx, rz, rp and the backward quadrature;
\* its x, z, p inputs have the sparsity of the forward ones (init()).
NullFX == [isNull |-> TRUE, nin |-> 0, nout |-> 0,
           x |-> EmptyMatrix, z |-> EmptyMatrix, p |-> EmptyMatrix,
           rx |-> EmptyMatrix, rz |-> EmptyMatrix,
           rp |-> EmptyMatrix, quad |-> EmptyMatrix,
           ode |-> EmptyMatrix, alg |-> EmptyMatrix]

\* The numbers of ports of a forward and of a backward DAE callback.
DAE_NUM_IN == 4
DAE_NUM_OUT == 3
RDAE_NUM_IN == 7
RDAE_NUM_OUT == 3

\* A forward callback that passes the checks of init(): the right numbers
\* of ports, the ODE output shaped as x, the algebraic output as z.
DaeFX(x, z, p, quad) ==
  [isNull |-> FALSE, nin |-> DAE_NUM_IN, nout |-> DAE_NUM_OUT,
   x |-> x, z |-> z, p |-> p, quad |-> quad, ode |-> x, alg |-> z]

\* A backward callback that passes the checks of init() next to the
\* forward callback f: its x, z, p inputs shaped as those of f, its ODE
\* output as rx, its algebraic output as rz.
RdaeFX(f, rx, rz, rp, quad) ==
  [isNull |-> FALSE, nin |-> RDAE_NUM_IN, nout |-> RDAE_NUM_OUT,
   x |-> f.x, z |-> f.z, p |-> f.p,
   rx |-> rx, rz |-> rz, rp |-> rp, quad |-> quad, ode |-> rx, alg |-> rz]

\* ------------------------------------------------------------- bit vectors
\* The dependency bits of a buffer of n elements.  One bit position is
\* followed: every operation of spEvaluate is bitwise, so what happens at
\* one position does not depend on the others.
Zeros(n) == [i \in 1..n |-> FALSE]

\* v[i] = b for every element of a buffer of n elements.
Fill(n, b) == [i \in 1..n |-> b]

\* The OR of the bits of a buffer.
AnyBit(v) == \E i \in 1..Len(v) : v[i]

\* The integrator's inputs and outputs before init() has allocated them.
NoBV == [in |-> [x0 |-> <<>>, p |-> <<>>, z0 |-> <<>>,
                 rx0 |-> <<>>, rp |-> <<>>, rz0 |-> <<>>],
         out |-> [xf |-> <<>>, qf |-> <<>>, zf |-> <<>>,
                  rxf |-> <<>>, rqf |-> <<>>, rzf |-> <<>>]]

\* DMatrix::zeros(sparsity) for the six inputs and the six outputs: one
\* element per structural nonzero.
ZeroBV(in, out) ==
  [in |-> [n \in DOMAIN in |-> Zeros(in[n].size)],
   out |-> [n \in DOMAIN out |-> Zeros(out[n].size)]]

\* The buffers of the callbacks and of the two linear solvers before init().
NoBuf == [f_in |-> [T |-> <<>>, X |-> <<>>, Z |-> <<>>, P |-> <<>>],
          f_out |-> [ODE |-> <<>>, ALG |-> <<>>, QUAD |-> <<>>],
          g_in |-> [T |-> <<>>, X |-> <<>>, Z |-> <<>>, P |-> <<>>,
                    RX |-> <<>>, RZ |-> <<>>, RP |-> <<>>],
          g_out |-> [ODE |-> <<>>, ALG |-> <<>>, QUAD |-> <<>>],
          tmp_f1 |-> <<>>, tmp_f2 |-> <<>>, tmp_g1 |-> <<>>, tmp_g2 |-> <<>>]

\* The buffers once the callbacks are initialized: the ports of f, of g
\* (empty when g is null), and one element per row of the two linear systems.
ZeroBuf(f, g) ==
  [f_in |-> [T |-> Zeros(1), X |-> Zeros(f.x.size), Z |-> Zeros(f.z.size),
             P |-> Zeros(f.p.size)],
   f_out |-> [ODE |-> Zeros(f.x.size), ALG |-> Zeros(f.z.size),
              QUAD |-> Zeros(f.quad.size)],
   g_in |-> IF g.isNull THEN NoBuf.g_in
            ELSE [T |-> Zeros(1), X |-> Zeros(f.x.size), Z |-> Zeros(f.z.size),
                  P |-> Zeros(f.p.size), RX |-> Zeros(g.rx.size),
                  RZ |-> Zeros(g.rz.size), RP |-> Zeros(g.rp.size)],
   g_out |-> IF g.isNull THEN NoBuf.g_out
             ELSE [ODE |-> Zeros(g.rx.size), ALG |-> Zeros(g.rz.size),
                   QUAD |-> Zeros(g.quad.size)],
   tmp_f1 |-> Zeros(f.x.size + f.z.size), tmp_f2 |-> Zeros(f.x.size + f.z.size),
   tmp_g1 |-> Zeros(g.rx.size + g.rz.size), tmp_g2 |-> Zeros(g.rx.size + g.rz.size)]

\* The structural Jacobian of a callback: "dense" when every output depends
\* on every input, "sparse" when the ODE output depends on the differential
\* state alone, the algebraic output on the differential state and the
\* algebraic variable, and the quadrature on the parameter alone.
Kinds == {"sparse", "dense"}

\* The members after IntegratorInternal::IntegratorInternal(f, g): np_ = -1; the other
\* dimension members and the times are not written (nothing reads them
\* before init() assigns them; the model holds 0 for them).
Constructed ==
  /\ phase = "constructed"
  /\ np_ = -1
  /\ nx_ = 0 /\ nz_ = 0 /\ nq_ = 0 /\ nrx_ = 0 /\ nrz_ = 0 /\ nrq_ = 0 /\ nrp_ = 0
  /\ input_ = [x0 |-> EmptyMatrix, p |-> EmptyMatrix, z0 |-> EmptyMatrix,
               rx0 |-> EmptyMatrix, rp |-> EmptyMatrix, rz0 |-> EmptyMatrix]
  /\ output_ = [xf |-> EmptyMatrix, qf |-> EmptyMatrix, zf |-> EmptyMatrix,
                rxf |-> EmptyMatrix, rqf |-> EmptyMatrix, rzf |-> EmptyMatrix]
  /\ call = NoCall
  /\ offset = NoOffset
  /\ aug = NoAug
  /\ der = NoDer
  /\ bv = NoBV
  /\ buf = NoBuf
  /\ ops = <<>>
  /\ prev = NoBV
  /\ t0_ = 0 /\ tf_ = 0 /\ t_ = 0
  /\ pc = "idle"
  /\ calls = <<>>
  /\ error = "none"
  /\ result = NoResult

\* The members, and the registry that the constructor has filled.
NewIntegrator ==
  /\ Constructed
  /\ allowed_options = IntegratorRegistry.allowed
  /\ options = IntegratorRegistry.options

\* An integrator is constructed on callbacks whose ports are matrices of
\* any of the three sorts.
Init ==
  /\ \E r1 \in 0..MaxTotal : \E r2 \in 0..(MaxTotal - r1) :
     \E r3 \in 0..(MaxTotal - r1 - r2) : \E r4 \in 0..(MaxTotal - r1 - r2 - r3) :
       /\ \E mx \in MatricesWithRows(r1), mz \in MatricesWithRows(r2),
             mp \in MatricesWithRows(r3), mq \in MatricesWithRows(r4) :
            f_ = DaeFX(mx, mz, mp, mq)
       /\ \/ g_ = NullFX
          \/ LET rest == MaxTotal - r1 - r2 - r3 - r4 IN
             \E b1 \in 0..rest : \E b2 \in 0..(rest - b1) :
             \E b3 \in 0..(rest - b1 - b2) : \E b4 \in 0..(rest - b1 - b2 - b3) :
             \E mrx \in MatricesWithRows(b1), mrz \in MatricesWithRows(b2),
                mrp \in MatricesWithRows(b3), mrq \in MatricesWithRows(b4) :
               g_ = RdaeFX(f_, mrx, mrz, mrp, mrq)
  /\ jac = [f |-> "dense", g |-> "dense"]
  /\ kept = EmptyMap
  /\ NewIntegrator

\* The shape and the sparsity pattern of a matrix.  A matrix of the
\* model is structurally empty (one column, no nonzero), a dense column, or
\* dense with MaxCols columns, so its rows and nonzeros tell its pattern.
shape(m) == <<m.size1, IF m.size > m.size1 THEN m.size \div m.size1 ELSE 1>>
sparsity(m) == <<shape(m), m.size>>
dense(m) == m.size = shape(m)[1] * shape(m)[2]

\* Mutant of InitThrowsAt: the inputs of the backward callback are not
\* compared with those of the forward callback.
InitThrowsAt_BackwardUnchecked ==
  IF f_.isNull THEN 83
  ELSE IF f_.nin # DAE_NUM_IN THEN 87
  ELSE IF f_.nout # DAE_NUM_OUT THEN 88
  ELSE IF ~g_.isNull /\ g_.nin # RDAE_NUM_IN THEN 100
  ELSE IF ~g_.isNull /\ g_.nout # RDAE_NUM_OUT THEN 101
  ELSE IF shape(f_.ode) # shape(f_.x) THEN 134
  ELSE IF sparsity(f_.ode) # sparsity(f_.x) THEN 135
  ELSE IF shape(f_.alg) # shape(f_.z) THEN 136
  ELSE IF sparsity(f_.alg) # sparsity(f_.z) THEN 137
  ELSE IF ~g_.isNull /\ sparsity(g_.ode) # sparsity(g_.rx) THEN 142
  ELSE IF ~g_.isNull /\ sparsity(g_.alg) # sparsity(g_.rz) THEN 143
  ELSE 0

\* The line of init() whose assertion fails, 0 when none does.
InitThrowsAt ==
  IF f_.isNull THEN 83
  ELSE IF f_.nin # DAE_NUM_IN THEN 87
  ELSE IF f_.nout # DAE_NUM_OUT THEN 88
  ELSE IF ~g_.isNull /\ g_.nin # RDAE_NUM_IN THEN 100
  ELSE IF ~g_.isNull /\ g_.nout # RDAE_NUM_OUT THEN 101
  ELSE IF shape(f_.ode) # shape(f_.x) THEN 134
  ELSE IF sparsity(f_.ode) # sparsity(f_.x) THEN 135
  ELSE IF shape(f_.alg) # shape(f_.z) THEN 136
  ELSE IF sparsity(f_.alg) # sparsity(f_.z) THEN 137
  ELSE IF ~g_.isNull /\ sparsity(g_.p) # sparsity(f_.p) THEN 139
  ELSE IF ~g_.isNull /\ sparsity(g_.x) # sparsity(f_.x) THEN 140
  ELSE IF ~g_.isNull /\ sparsity(g_.z) # sparsity(f_.z) THEN 141
  ELSE IF ~g_.isNull /\ sparsity(g_.ode) # sparsity(g_.rx) THEN 142
  ELSE IF ~g_.isNull /\ sparsity(g_.alg) # sparsity(g_.rz) THEN 143
  ELSE 0

\* The exception of the assertion at a line of init().
InitError(at) ==
  CASE at = 0 -> "none"
    [] at = 87 -> "Wrong number of inputs for the DAE callback function"
    [] at = 88 -> "Wrong number of outputs for the DAE callback function"
    [] at = 100 -> "Wrong number of inputs for the backwards DAE callback function"
    [] at = 101 -> "Wrong number of outputs for the backwards DAE callback function"
    [] at \in {134, 136} -> "Inconsistent dimensions"
    [] OTHER -> "Assertion failed"

\* init() has run the statement at a line: no assertion before it failed.
Reached(at, line) == at = 0 \/ at > line

\* IntegratorInternal::init().  What it has assigned before an assertion
\* fails stays assigned.
init ==
  /\ phase = "constructed"
  /\ LET at == InitThrowsAt IN
     /\ error' = InitError(at)
     /\ phase' = IF at = 0 THEN "initialized" ELSE phase
     /\ IF Reached(at, 92)
        THEN /\ nx_' = f_.x.size
             /\ nz_' = f_.z.size
             /\ nq_' = f_.quad.size
             /\ np_' = f_.p.size
        ELSE UNCHANGED <<nx_, nz_, nq_, np_>>
     /\ IF Reached(at, 106)
        THEN IF g_.isNull
             THEN nrx_' = 0 /\ nrz_' = 0 /\ nrq_' = 0 /\ nrp_' = 0
             ELSE /\ nrx_' = g_.rx.size
                  /\ nrz_' = g_.rz.size
                  /\ nrp_' = g_.rp.size
                  /\ nrq_' = g_.quad.size
        ELSE UNCHANGED <<nrx_, nrz_, nrq_, nrp_>>
     /\ IF Reached(at, 128)
        THEN /\ input_' = [x0 |-> f_.x, p |-> f_.p, z0 |-> f_.z,
                           rx0 |-> IF g_.isNull THEN EmptyMatrix ELSE g_.rx,
                           rp |-> IF g_.isNull THEN EmptyMatrix ELSE g_.rp,
                           rz0 |-> IF g_.isNull THEN EmptyMatrix ELSE g_.rz]
             /\ output_' = [xf |-> f_.x, qf |-> f_.quad, zf |-> f_.z,
                            rxf |-> IF g_.isNull THEN EmptyMatrix ELSE g_.rx,
                            rqf |-> IF g_.isNull THEN EmptyMatrix ELSE g_.quad,
                            rzf |-> IF g_.isNull THEN EmptyMatrix ELSE g_.rz]
             /\ bv' = ZeroBV(input_', output_')
             /\ prev' = bv'
        ELSE UNCHANGED <<input_, output_, bv, prev>>
     /\ IF Reached(at, 165)
        THEN /\ t0_' = toDouble(getOption(options, "t0").value)
             /\ tf_' = toDouble(getOption(options, "tf").value)
             /\ buf' = ZeroBuf(f_, g_)
        ELSE UNCHANGED <<t0_, tf_, buf>>
  /\ UNCHANGED <<f_, g_, call, offset, aug, der, jac, ops,
                 registry, t_, lifevars, kept>>

\* ------------------------------------------------------------ getAugmented
\* A symbolic matrix (MX): its number of rows and what it stands for.
MX(r, e) == [size1 |-> r, expr |-> e, idx |-> 0]

\* The i-th block of the split of the vector e.
Block(r, e, i) == [size1 |-> r, expr |-> e, idx |-> i]

\* MX(): the default-constructed, empty expression.
NullMX == MX(0, "MX()")

\* Total height of a list of MX, as vertcat stacks them.
RECURSIVE Height(_)
Height(l) == IF l = <<>> THEN 0 ELSE Head(l).size1 + Height(Tail(l))

\* vertsplit(v, offset): the blocks of v between consecutive offsets, one
\* block per pair of neighbouring offsets, in order.
vertsplit(name, off) ==
  [i \in 1..(Len(off) - 1) |-> Block(off[i + 1] - off[i], name, i)]

CursorNames == {"x", "z", "p", "rx", "rz", "rp"}

\* *it++ on the cursor `name` when cond holds: tmp[slot] takes the block the
\* cursor stands at and the cursor moves on.  Dereferencing a cursor that
\* already stands at the end of its list is recorded in `overrun`.
TakeIf(s, cond, slot, name) ==
  IF cond
  THEN [s EXCEPT !.tmp[slot] = IF s.it[name] < Len(s.split[name])
                               THEN s.split[name][s.it[name] + 1]
                               ELSE MX(0, "past-the-end"),
                 !.overrun = @ \/ (s.it[name] >= Len(s.split[name])),
                 !.it[name] = @ + 1]
  ELSE s

\* list.push_back(tmp[slot]) when cond holds.
PushBackIf(s, cond, list, slot) ==
  IF cond THEN [s EXCEPT ![list] = Append(@, s.tmp[slot])] ELSE s

\* The derivative functions of the callbacks, as called with the collected
\* arguments: d.call(arg) returns one output tuple per direction, the part
\* for the nondifferentiated call first.  A forward-direction tuple is
\* shaped like the callback's outputs, an adjoint-direction tuple like its
\* inputs.
DaeOut(e) == [ODE |-> MX(f_.x.size1, e), ALG |-> MX(f_.z.size1, e),
              QUAD |-> MX(f_.quad.size1, e)]
DaeIn(e) == [T |-> MX(1, e), X |-> MX(f_.x.size1, e), Z |-> MX(f_.z.size1, e),
             P |-> MX(f_.p.size1, e)]
RdaeOut(e) == [ODE |-> MX(g_.rx.size1, e), ALG |-> MX(g_.rz.size1, e),
               QUAD |-> MX(g_.quad.size1, e)]
RdaeIn(e) == [T |-> MX(1, e), X |-> MX(f_.x.size1, e), Z |-> MX(f_.z.size1, e),
              P |-> MX(f_.p.size1, e), RX |-> MX(g_.rx.size1, e),
              RZ |-> MX(g_.rz.size1, e), RP |-> MX(g_.rp.size1, e)]

\* f_.derivative(nfwd,0).call(f_arg)
call_f_fwd(nfwd) == [k \in 1..(1 + nfwd) |-> DaeOut("df")]
\* g_.derivative(nfwd,0).call(g_arg)
call_g_fwd(nfwd) == [k \in 1..(1 + nfwd) |-> RdaeOut("dg")]
\* f_.derivative(0,nadj).call(f_arg)
call_f_adj(nadj) ==
  [k \in 1..(1 + nadj) |-> IF k = 1 THEN DaeOut("f") ELSE DaeIn("adj f")]
\* g_.derivative(0,nadj).call(g_arg), with the seeds rx, rz, rp as collected
call_g_adj(nadj) ==
  [k \in 1..(1 + nadj) |-> IF k = 1 THEN RdaeOut("g") ELSE RdaeIn("adj g")]
\* g_.derivative(0,nadj).call(g_arg), with rx, rz, rp replaced by zeros
call_g_adj0(nadj) ==
  [k \in 1..(1 + nadj) |-> IF k = 1 THEN RdaeOut("g0") ELSE RdaeIn("adj g0")]

\* copy(res_it,res_it+tmp.size(),tmp.begin()); res_it += tmp.size();
\* Reading past res.end() is recorded in `overrun`.
CopyRes(s, blank) ==
  [s EXCEPT !.tmp = IF s.res_it < Len(s.res) THEN s.res[s.res_it + 1] ELSE blank,
            !.overrun = @ \/ (s.res_it >= Len(s.res)),
            !.res_it = @ + 1]

\* casadi_assert(res_it==res.end())
AssertResEnd(s) == [s EXCEPT !.assert_ok = @ /\ (s.res_it = Len(s.res))]

NullDaeIn == [T |-> NullMX, X |-> NullMX, Z |-> NullMX, P |-> NullMX]
NullDaeOut == [ODE |-> NullMX, ALG |-> NullMX, QUAD |-> NullMX]
NullRdaeIn == [T |-> NullMX, X |-> NullMX, Z |-> NullMX, P |-> NullMX,
               RX |-> NullMX, RZ |-> NullMX, RP |-> NullMX]

\* Lines 220-227: collect the arguments of the forward derivative of f.
RECURSIVE CollectFArg(_, _)
CollectFArg(s, nfwd) ==
  IF s.dir < nfwd
  THEN LET s0 == [s EXCEPT !.tmp.T = IF s.dir < 0 THEN MX(1, "aug_t")
                                                ELSE MX(1, "zero_t")]
           s1 == TakeIf(s0, nx_ > 0, "X", "x")
           s2 == TakeIf(s1, nz_ > 0, "Z", "z")
           s3 == TakeIf(s2, np_ > 0, "P", "p")
       IN CollectFArg([s3 EXCEPT !.f_arg = Append(@, s3.tmp),
                               !.dir = @ + 1], nfwd)
  ELSE s

\* Lines 236-242: collect the right-hand sides of the forward derivative of f.
RECURSIVE CollectFRhs(_, _)
CollectFRhs(s, nfwd) ==
  IF s.dir < nfwd
  THEN LET s0 == CopyRes(s, NullDaeOut)
           s1 == PushBackIf(s0, nx_ > 0, "f_ode", "ODE")
           s2 == PushBackIf(s1, nz_ > 0, "f_alg", "ALG")
           s3 == PushBackIf(s2, nq_ > 0, "f_quad", "QUAD")
       IN CollectFRhs([s3 EXCEPT !.dir = @ + 1], nfwd)
  ELSE s

\* Lines 213-245: forward derivatives of f.
ForwardF(s, nfwd) ==
  LET a == CollectFArg([s EXCEPT !.tmp = NullDaeIn, !.dir = -1], nfwd)
      b == [a EXCEPT !.res = call_f_fwd(nfwd), !.res_it = 0, !.tmp = NullDaeOut,
                     !.dir = -1]
  IN AssertResEnd(CollectFRhs(b, nfwd))

\* Lines 262-271: collect the arguments of the forward derivative of g.
RECURSIVE CollectGArg(_, _)
CollectGArg(s, nfwd) ==
  IF s.dir < nfwd
  THEN LET s0 == [s EXCEPT !.tmp.T = IF s.dir < 0 THEN MX(1, "aug_t")
                                                ELSE MX(1, "zero_t")]
           s1 == TakeIf(s0, nx_ > 0, "X", "x")
           s2 == TakeIf(s1, nz_ > 0, "Z", "z")
           s3 == TakeIf(s2, np_ > 0, "P", "p")
           s4 == TakeIf(s3, nrx_ > 0, "RX", "rx")
           s5 == TakeIf(s4, nrz_ > 0, "RZ", "rz")
           s6 == TakeIf(s5, nrp_ > 0, "RP", "rp")
       IN CollectGArg([s6 EXCEPT !.g_arg = Append(@, s6.tmp),
                               !.dir = @ + 1], nfwd)
  ELSE s

\* Lines 280-286: collect the right-hand sides of the forward derivative of g.
RECURSIVE CollectGRhs(_, _)
CollectGRhs(s, nfwd) ==
  IF s.dir < nfwd
  THEN LET s0 == CopyRes(s, NullDaeOut)
           s1 == PushBackIf(s0, nrx_ > 0, "g_ode", "ODE")
           s2 == PushBackIf(s1, nrz_ > 0, "g_alg", "ALG")
           s3 == PushBackIf(s2, nrq_ > 0, "g_quad", "QUAD")
       IN CollectGRhs([s3 EXCEPT !.dir = @ + 1], nfwd)
  ELSE s

\* Mutant of ForwardG: the cursors of aug_x, aug_z, aug_p are not reset.
ForwardG_NoReset(s, nfwd) ==
  IF g_.isNull THEN s
  ELSE LET r == [s EXCEPT !.tmp = NullRdaeIn, !.dir = -1]
           a == CollectGArg(r, nfwd)
           b == [a EXCEPT !.res = call_g_fwd(nfwd), !.res_it = 0,
                          !.tmp = NullDaeOut, !.dir = -1]
       IN AssertResEnd(CollectGRhs(b, nfwd))

\* Lines 248-290: forward derivatives of g, when there is a backward problem.
\* The cursors of aug_x, aug_z, aug_p are reset to the beginning first.
ForwardG(s, nfwd) ==
  IF g_.isNull THEN s
  ELSE LET r == [s EXCEPT !.tmp = NullRdaeIn,
                          !.it.x = 0, !.it.z = 0, !.it.p = 0, !.dir = -1]
           a == CollectGArg(r, nfwd)
           b == [a EXCEPT !.res = call_g_fwd(nfwd), !.res_it = 0,
                          !.tmp = NullDaeOut, !.dir = -1]
       IN AssertResEnd(CollectGRhs(b, nfwd))

\* Lines 302-307: collect the adjoint seeds of f from the backward vectors.
RECURSIVE CollectFSeed(_, _)
CollectFSeed(s, nadj) ==
  IF s.dir < nadj
  THEN LET s1 == TakeIf(s, nx_ > 0, "ODE", "rx")
           s2 == TakeIf(s1, nz_ > 0, "ALG", "rz")
           s3 == TakeIf(s2, nq_ > 0, "QUAD", "rp")
       IN CollectFSeed([s3 EXCEPT !.f_arg = Append(@, s3.tmp),
                               !.dir = @ + 1], nadj)
  ELSE s

\* Mutant of CollectFAdj: the adjoint sensitivities of f are appended to the
\* forward lists.
RECURSIVE CollectFAdj_ToForward(_, _)
CollectFAdj_ToForward(s, nadj) ==
  IF s.dir < nadj
  THEN LET s0 == CopyRes(s, NullDaeIn)
           s1 == PushBackIf(s0, nx_ > 0, "f_ode", "X")
           s2 == PushBackIf(s1, nz_ > 0, "f_alg", "Z")
           s3 == PushBackIf(s2, np_ > 0, "f_quad", "P")
       IN CollectFAdj_ToForward([s3 EXCEPT !.dir = @ + 1], nadj)
  ELSE s

\* Lines 320-326: the adjoint sensitivities of f go to the backward lists.
RECURSIVE CollectFAdj(_, _)
CollectFAdj(s, nadj) ==
  IF s.dir < nadj
  THEN LET s0 == CopyRes(s, NullDaeIn)
           s1 == PushBackIf(s0, nx_ > 0, "g_ode", "X")
           s2 == PushBackIf(s1, nz_ > 0, "g_alg", "Z")
           s3 == PushBackIf(s2, np_ > 0, "g_quad", "P")
       IN CollectFAdj([s3 EXCEPT !.dir = @ + 1], nadj)
  ELSE s

\* Lines 294-329: adjoint derivatives of f.  f_arg keeps its first
\* (nondifferentiated) tuple; res_it starts after the nondifferentiated
\* outputs; the current ends of the backward lists are recorded.
AdjointF(s, nadj) ==
  LET a == [s EXCEPT !.f_arg = SubSeq(@, 1, 1), !.tmp = NullDaeOut, !.dir = 0]
      b == CollectFSeed(a, nadj)
      c == [b EXCEPT !.res = call_f_adj(nadj), !.res_it = 1,
                     !.g_ode_ind = Len(b.g_ode), !.g_alg_ind = Len(b.g_alg),
                     !.g_quad_ind = Len(b.g_quad), !.dir = 0]
  IN AssertResEnd(CollectFAdj(c, nadj))

\* Lines 341-346: collect the adjoint seeds of g from the forward vectors.
RECURSIVE CollectGSeed(_, _)
CollectGSeed(s, nadj) ==
  IF s.dir < nadj
  THEN LET s1 == TakeIf(s, nrx_ > 0, "ODE", "x")
           s2 == TakeIf(s1, nrz_ > 0, "ALG", "z")
           s3 == TakeIf(s2, nrq_ > 0, "QUAD", "p")
       IN CollectGSeed([s3 EXCEPT !.g_arg = Append(@, s3.tmp),
                               !.dir = @ + 1], nadj)
  ELSE s

\* list[ind++] += tmp[slot] when cond holds; an index past the end of the
\* list is recorded in `overrun`.
AddAtIf(s, cond, list, ind, slot) ==
  IF cond
  THEN [s EXCEPT ![list] = IF s[ind] < Len(s[list])
                           THEN [@ EXCEPT ![s[ind] + 1] =
                                   MX(Max(@.size1, s.tmp[slot].size1), "sum")]
                           ELSE @,
                 !.overrun = @ \/ (s[ind] >= Len(s[list])),
                 ![ind] = @ + 1]
  ELSE s

\* Lines 354-360: the sensitivities of g with respect to x, z, p are added
\* to the entries the adjoint of f appended.
RECURSIVE CollectGAdj(_, _)
CollectGAdj(s, nadj) ==
  IF s.dir < nadj
  THEN LET s0 == CopyRes(s, NullRdaeIn)
           s1 == AddAtIf(s0, nx_ > 0, "g_ode", "g_ode_ind", "X")
           s2 == AddAtIf(s1, nz_ > 0, "g_alg", "g_alg_ind", "Z")
           s3 == AddAtIf(s2, np_ > 0, "g_quad", "g_quad_ind", "P")
       IN CollectGAdj([s3 EXCEPT !.dir = @ + 1], nadj)
  ELSE s

\* Lines 378-384: the sensitivities of g with respect to rx, rz, rp (seeds
\* zeroed) go to the forward lists.
RECURSIVE CollectGAdj0(_, _)
CollectGAdj0(s, nadj) ==
  IF s.dir < nadj
  THEN LET s0 == CopyRes(s, NullRdaeIn)
           s1 == PushBackIf(s0, nrx_ > 0, "f_ode", "RX")
           s2 == PushBackIf(s1, nrz_ > 0, "f_alg", "RZ")
           s3 == PushBackIf(s2, nrp_ > 0, "f_quad", "RP")
       IN CollectGAdj0([s3 EXCEPT !.dir = @ + 1], nadj)
  ELSE s

\* Lines 331-388: adjoint derivatives of g, when there is a backward problem.
AdjointG(s, nadj) ==
  IF g_.isNull THEN s
  ELSE LET a == [s EXCEPT !.g_arg = SubSeq(@, 1, 1), !.tmp = NullDaeOut,
                          !.dir = 0]
           b == CollectGSeed(a, nadj)
           c == [b EXCEPT !.res = call_g_adj(nadj), !.res_it = 1, !.dir = 0]
           d == CollectGAdj(c, nadj)
           e == [d EXCEPT !.assert_ok = @ /\ d.g_ode_ind = Len(d.g_ode)
                                          /\ d.g_alg_ind = Len(d.g_alg)
                                          /\ d.g_quad_ind = Len(d.g_quad),
                          !.res = call_g_adj0(nadj), !.res_it = 1, !.dir = 0]
       IN AssertResEnd(CollectGAdj0(e, nadj))

\* Lines 292-389
Adjoint(s, nadj) == IF nadj > 0 THEN AdjointG(AdjointF(s, nadj), nadj) ELSE s

\* A function object: which object it is, the heights of its inputs and
\* the heights of its three outputs.  "f_mx" and "g_mx" are the functions
\* assembled here (an MXFunction, or its expansion to an SXFunction: the two
\* have the same ports and are not told apart); an output whose list is
\* empty stays a null MX, of height 0.
NoFunction == [obj |-> "null", x |-> 0, z |-> 0, p |-> 0,
               rx |-> 0, rz |-> 0, rp |-> 0, ode |-> 0, alg |-> 0, quad |-> 0]
Function(obj, off, backward, ode, alg, quad) ==
  [obj |-> obj, x |-> Last(off.x), z |-> Last(off.z), p |-> Last(off.p),
   rx |-> IF backward THEN Last(off.rx) ELSE 0,
   rz |-> IF backward THEN Last(off.rz) ELSE 0,
   rp |-> IF backward THEN Last(off.rp) ELSE 0,
   ode |-> Height(ode), alg |-> Height(alg), quad |-> Height(quad)]

\* Mutant of AugmentedF: the forward function is always rebuilt.
AugmentedF_AlwaysBuilt(s, nfwd, off) ==
  Function("f_mx", off, FALSE, s.f_ode, s.f_alg, s.f_quad)

\* Lines 397-418: the augmented forward function; the existing f_ is reused
\* when there is no backward problem and no forward direction.
AugmentedF(s, nfwd, off) ==
  IF g_.isNull /\ nfwd = 0
  THEN [obj |-> "f_", x |-> f_.x.size1, z |-> f_.z.size1, p |-> f_.p.size1,
        rx |-> 0, rz |-> 0, rp |-> 0,
        ode |-> f_.x.size1, alg |-> f_.z.size1, quad |-> f_.quad.size1]
  ELSE Function("f_mx", off, FALSE, s.f_ode, s.f_alg, s.f_quad)

\* Lines 420-442: the augmented backward function.
AugmentedG(s, off) ==
  IF s.g_ode # <<>>
  THEN Function("g_mx", off, TRUE, s.g_ode, s.g_alg, s.g_quad)
  ELSE NoFunction

\* Lines 444-450: every cursor stands at the end of its list.
CursorsAtEnd(s) == \A n \in CursorNames : s.it[n] = Len(s.split[n])

\* Lines 391-453: what getAugmented leaves once the lists are assembled: the
\* offsets, the pair of functions, and the record of the run (the lists,
\* the cursors, whether an assertion failed).
Augmented(s1, nfwd, off) ==
  [built |-> TRUE,
   offset |-> off,
   f_ode |-> s1.f_ode, f_alg |-> s1.f_alg, f_quad |-> s1.f_quad,
   g_ode |-> s1.g_ode, g_alg |-> s1.g_alg, g_quad |-> s1.g_quad,
   it |-> s1.it,
   nsplit |-> [n \in CursorNames |-> Len(s1.split[n])],
   overrun |-> s1.overrun,
   assert_ok |-> s1.assert_ok /\ CursorsAtEnd(s1),
   first |-> AugmentedF(s1, nfwd, off),
   second |-> AugmentedG(s1, off)]

\* IntegratorInternal::getAugmented(nfwd, nadj, offset)
getAugmented(nfwd, nadj) ==
  LET off == getAugOffset(nfwd, nadj)
      s0 == [split |-> [x |-> vertsplit("aug_x", off.x),
                        z |-> vertsplit("aug_z", off.z),
                        p |-> vertsplit("aug_p", off.p),
                        rx |-> vertsplit("aug_rx", off.rx),
                        rz |-> vertsplit("aug_rz", off.rz),
                        rp |-> vertsplit("aug_rp", off.rp)],
             it |-> [n \in CursorNames |-> 0],
             tmp |-> NullDaeIn, dir |-> -1,
             f_arg |-> <<>>, g_arg |-> <<>>,
             res |-> <<>>, res_it |-> 0,
             f_ode |-> <<>>, f_alg |-> <<>>, f_quad |-> <<>>,
             g_ode |-> <<>>, g_alg |-> <<>>, g_quad |-> <<>>,
             g_ode_ind |-> 0, g_alg_ind |-> 0, g_quad_ind |-> 0,
             overrun |-> FALSE, assert_ok |-> TRUE]
  IN Augmented(Adjoint(ForwardG(ForwardF(s0, nfwd), nfwd), nadj), nfwd, off)

\* ----------------------------------------------------------- getDerivative
InNames == {"x0", "p", "z0", "rx0", "rp", "rz0"}
OutNames == {"xf", "qf", "zf", "rxf", "rqf", "rzf"}

\* MX::append(y): y is stacked below what is there.
AppendMX(a, name, y) == [a EXCEPT ![name] = Append(@, y)]

\* Lines 729-775, one pass: the inputs (or forward seeds) of one direction
\* are appended to the six augmented input vectors.
AppendInputs(a) ==
  LET a1 == AppendMX(a, "x0", MX(input_.x0.size1, "x0"))
      a2 == AppendMX(a1, "p", MX(input_.p.size1, "p"))
      a3 == AppendMX(a2, "z0", MX(input_.z0.size1, "z0"))
      a4 == AppendMX(a3, "rx0", MX(input_.rx0.size1, "rx0"))
      a5 == AppendMX(a4, "rp", MX(input_.rp.size1, "rp"))
      a6 == AppendMX(a5, "rz0", MX(input_.rz0.size1, "rz0"))
  IN a6

\* Lines 779-819, one pass: the adjoint seeds of one direction, shaped like
\* the outputs, are appended to the augmented input vectors.
AppendAdjSeeds(a) ==
  LET a1 == AppendMX(a, "rx0", MX(output_.xf.size1, "xf"))
      a2 == AppendMX(a1, "rp", MX(output_.qf.size1, "qf"))
      a3 == AppendMX(a2, "rz0", MX(output_.zf.size1, "zf"))
      a4 == AppendMX(a3, "x0", MX(output_.rxf.size1, "rxf"))
      a5 == AppendMX(a4, "p", MX(output_.rqf.size1, "rqf"))
      a6 == AppendMX(a5, "z0", MX(output_.rzf.size1, "rzf"))
  IN a6

RECURSIVE AddInputs(_, _, _)
AddInputs(a, dir, nfwd) ==
  IF dir < nfwd THEN AddInputs(AppendInputs(a), dir + 1, nfwd) ELSE a

RECURSIVE AddAdjSeeds(_, _, _)
AddAdjSeeds(a, dir, nadj) ==
  IF dir < nadj THEN AddAdjSeeds(AppendAdjSeeds(a), dir + 1, nadj) ELSE a

NullIn == [X0 |-> NullMX, P |-> NullMX, Z0 |-> NullMX,
           RX0 |-> NullMX, RP |-> NullMX, RZ0 |-> NullMX]
NullOut == [XF |-> NullMX, QF |-> NullMX, ZF |-> NullMX,
            RXF |-> NullMX, RQF |-> NullMX, RZF |-> NullMX]

\* Lines 852-860: the nondifferentiated results and forward sensitivities.
RECURSIVE CollectFwdSens(_, _)
CollectFwdSens(s, nfwd) ==
  IF s.dir < nfwd
  THEN LET s1 == TakeIf(s, nx_ > 0, "XF", "xf")
           s2 == TakeIf(s1, nq_ > 0, "QF", "qf")
           s3 == TakeIf(s2, nz_ > 0, "ZF", "zf")
           s4 == TakeIf(s3, nrx_ > 0, "RXF", "rxf")
           s5 == TakeIf(s4, nrq_ > 0, "RQF", "rqf")
           s6 == TakeIf(s5, nrz_ > 0, "RZF", "rzf")
       IN CollectFwdSens([s6 EXCEPT !.ret_out = Append(@, s6.tmp),
                               !.dir = @ + 1], nfwd)
  ELSE s

\* Mutant of CollectAdjSens: the adjoint sensitivities are read without the
\* swap, the forward slots from the forward results.
RECURSIVE CollectAdjSens_NoSwap(_, _)
CollectAdjSens_NoSwap(s, nadj) ==
  IF s.dir < nadj
  THEN LET s1 == TakeIf(s, nx_ > 0, "X0", "xf")
           s2 == TakeIf(s1, np_ > 0, "P", "qf")
           s3 == TakeIf(s2, nz_ > 0, "Z0", "zf")
           s4 == TakeIf(s3, nrx_ > 0, "RX0", "rxf")
           s5 == TakeIf(s4, nrp_ > 0, "RP", "rqf")
           s6 == TakeIf(s5, nrz_ > 0, "RZ0", "rzf")
       IN CollectAdjSens_NoSwap([s6 EXCEPT !.ret_out = Append(@, s6.tmp),
                                      !.dir = @ + 1], nadj)
  ELSE s

\* Lines 865-873: the adjoint sensitivities.
RECURSIVE CollectAdjSens(_, _)
CollectAdjSens(s, nadj) ==
  IF s.dir < nadj
  THEN LET s1 == TakeIf(s, nx_ > 0, "X0", "rxf")
           s2 == TakeIf(s1, np_ > 0, "P", "rqf")
           s3 == TakeIf(s2, nz_ > 0, "Z0", "rzf")
           s4 == TakeIf(s3, nrx_ > 0, "RX0", "xf")
           s5 == TakeIf(s4, nrp_ > 0, "RP", "qf")
           s6 == TakeIf(s5, nrz_ > 0, "RZ0", "zf")
       IN CollectAdjSens([s6 EXCEPT !.ret_out = Append(@, s6.tmp),
                               !.dir = @ + 1], nadj)
  ELSE s

\* Lines 862-873: dd is resized to the inputs and cleared, and the adjoint
\* sensitivities are collected.
AdjSens(s1, nadj) == CollectAdjSens([s1 EXCEPT !.tmp = NullIn, !.dir = 0], nadj)

\* Lines 821-877: what getDerivative leaves: the augmented inputs passed to
\* the augmented integrator, the shapes of the tuples of inputs of the
\* returned function, its outputs, and the record of the cursors.
Derivative(s2, in_aug, nfwd, nadj) ==
  [built |-> TRUE,
   in_aug |-> in_aug,
   ret_in |-> [k \in 1..(1 + nfwd + nadj) |->
                 IF k <= 1 + nfwd THEN "in" ELSE "out"],
   ret_out |-> s2.ret_out,
   it |-> s2.it,
   nsplit |-> [n \in OutNames |-> Len(s2.split[n])],
   overrun |-> s2.overrun]

\* IntegratorInternal::getDerivative(nfwd, nadj), given the augmented DAE
\* a that getAugmented built.
getDerivative(a, nfwd, nadj) ==
  LET off == a.offset
      in0 == [n \in InNames |-> <<>>]
      in_aug == AddAdjSeeds(AddInputs(in0, -1, nfwd), 0, nadj)
      s0 == [split |-> [xf |-> vertsplit("xf_aug", off.x),
                        qf |-> vertsplit("qf_aug", off.q),
                        zf |-> vertsplit("zf_aug", off.z),
                        rxf |-> vertsplit("rxf_aug", off.rx),
                        rqf |-> vertsplit("rqf_aug", off.rq),
                        rzf |-> vertsplit("rzf_aug", off.rz)],
             it |-> [n \in OutNames |-> 0],
             tmp |-> NullOut, dir |-> -1,
             ret_out |-> <<>>,
             overrun |-> FALSE]
  IN Derivative(AdjSens(CollectFwdSens(s0, nfwd), nadj), in_aug, nfwd, nadj)

\* ------------------------------------------------------------- spEvaluate
\* The pairs <<o, i>> such that output o of the forward callback depends on
\* its input i.
DepF(kind) ==
  IF kind = "dense"
  THEN {"ODE", "ALG", "QUAD"} \X {"T", "X", "Z", "P"}
  ELSE {<<"ODE", "X">>, <<"ALG", "X">>, <<"ALG", "Z">>, <<"QUAD", "P">>}

\* The pairs <<o, i>> such that output o of the backward callback depends
\* on its input i.
DepG(kind) ==
  IF kind = "dense"
  THEN {"ODE", "ALG", "QUAD"} \X {"T", "X", "Z", "P", "RX", "RZ", "RP"}
  ELSE {<<"ODE", "RX">>, <<"ODE", "X">>, <<"ALG", "RX">>, <<"ALG", "RZ">>,
        <<"QUAD", "RP">>}

\* f.spEvaluate(true) for a callback with the dependencies dep: every
\* element of an output takes the OR of the bits of the inputs the output
\* depends on.
spEvaluateFX(dep, in, out) ==
  [o \in DOMAIN out |->
     Fill(Len(out[o]), \E i \in DOMAIN in : <<o, i>> \in dep /\ AnyBit(in[i]))]

\* f.jacSparsity(i, o), placed at row r0 and column c0 of a larger pattern:
\* the entries <<row, column>> of a block of nr rows and nc columns.
jacSparsity(dep, r0, nr, c0, nc) ==
  IF dep THEN {<<r0 + r, c0 + c>> : r \in 1..nr, c \in 1..nc} ELSE {}

\* sp_diag(n)
sp_diag(n) == {<<i, i>> : i \in 1..n}

\* IntegratorInternal::spJacF()
spJacF ==
  LET ret == jacSparsity(<<"ODE", "X">> \in DepF(jac.f), 0, nx_, 0, nx_) \cup sp_diag(nx_)
  IN IF nz_ = 0 THEN ret
     ELSE ret \cup jacSparsity(<<"ODE", "Z">> \in DepF(jac.f), 0, nx_, nx_, nz_)
              \cup jacSparsity(<<"ALG", "X">> \in DepF(jac.f), nx_, nz_, 0, nx_)
              \cup jacSparsity(<<"ALG", "Z">> \in DepF(jac.f), nx_, nz_, nx_, nz_)

\* IntegratorInternal::spJacG()
spJacG ==
  LET ret == jacSparsity(<<"ODE", "RX">> \in DepG(jac.g), 0, nrx_, 0, nrx_) \cup sp_diag(nrx_)
  IN IF nrz_ = 0 THEN ret
     ELSE ret \cup jacSparsity(<<"ODE", "RZ">> \in DepG(jac.g), 0, nrx_, nrx_, nrz_)
              \cup jacSparsity(<<"ALG", "RX">> \in DepG(jac.g), nrx_, nrz_, 0, nrx_)
              \cup jacSparsity(<<"ALG", "RZ">> \in DepG(jac.g), nrx_, nrz_, nrx_, nrz_)

\* The pairs <<a, b>> such that unknown a is reached from unknown b through
\* the entries R of a pattern over n unknowns, by way of unknowns 1..k.
RECURSIVE Reach(_, _, _)
Reach(R, n, k) ==
  IF k = 0 THEN R \cup sp_diag(n)
  ELSE LET C == Reach(R, n, k - 1)
       IN C \cup {e \in (1..n) \X (1..n) : <<e[1], k>> \in C /\ <<k, e[2]>> \in C}

\* linsol.spSolve(X, B, transposed) on the pattern A: every unknown takes the
\* OR of the bits of X and of B over the unknowns it is coupled with.
spSolve(A, X, B, transposed) ==
  LET n == Len(X)
      R == IF transposed THEN {<<e[2], e[1]>> : e \in A} ELSE A
      C == Reach(R, n, n)
  IN [i \in 1..n |-> \E j \in 1..n : <<i, j>> \in C /\ (X[j] \/ B[j])]

\* Mutant of PropagateF: the algebraic input is seeded with the bits of z0.
PropagateF_SeedsZ(s) ==
  LET a == [s EXCEPT !.f_in.T = Zeros(Len(@)), !.f_in.X = s.in.x0,
                     !.f_in.P = s.in.p, !.f_in.Z = s.in.z0]
      b == [a EXCEPT !.f_out = spEvaluateFX(DepF(jac.f), a.f_in, @)]
  IN [b EXCEPT !.tmp_f1 = b.f_out.ODE \o b.f_out.ALG]

\* Lines 471-478: propagate the bits of x0 and p through the DAE, with no
\* bit on t and on z.
PropagateF(s) ==
  LET a == [s EXCEPT !.f_in.T = Zeros(Len(@)), !.f_in.X = s.in.x0,
                     !.f_in.P = s.in.p, !.f_in.Z = Zeros(Len(@))]
      b == [a EXCEPT !.f_out = spEvaluateFX(DepF(jac.f), a.f_in, @)]
  IN [b EXCEPT !.tmp_f1 = b.f_out.ODE \o b.f_out.ALG]

\* Mutant of SolveF: the solution is written to x0 and z0.
SolveF_WritesInputs(s) ==
  LET a == [s EXCEPT !.tmp_f2 = s.in.x0 \o Zeros(nz_)]
      b == [a EXCEPT !.tmp_f2 = spSolve(spJacF, @, a.tmp_f1, TRUE)]
  IN [b EXCEPT !.in.x0 = SubSeq(b.tmp_f2, 1, nx_),
               !.in.z0 = SubSeq(b.tmp_f2, nx_ + 1, nx_ + nz_)]

\* Lines 480-485: propagate the interdependencies; xf and zf are written.
SolveF(s) ==
  LET a == [s EXCEPT !.tmp_f2 = s.in.x0 \o Zeros(nz_)]
      b == [a EXCEPT !.tmp_f2 = spSolve(spJacF, @, a.tmp_f1, TRUE)]
  IN [b EXCEPT !.out.xf = SubSeq(b.tmp_f2, 1, nx_),
               !.out.zf = SubSeq(b.tmp_f2, nx_ + 1, nx_ + nz_)]

\* Lines 487-493: the influence on the quadratures.
QuadF(s) ==
  IF nq_ > 0
  THEN LET a == [s EXCEPT !.f_in.X = SubSeq(s.tmp_f2, 1, nx_),
                          !.f_in.Z = s.out.zf]
           b == [a EXCEPT !.f_out = spEvaluateFX(DepF(jac.f), a.f_in, @)]
       IN [b EXCEPT !.out.qf = b.f_out.QUAD]
  ELSE s

\* Lines 498-508: propagate through the backward DAE.
PropagateG(s) ==
  LET a == [s EXCEPT !.g_in.T = Zeros(Len(@)), !.g_in.X = s.out.xf,
                     !.g_in.P = s.in.p, !.g_in.Z = s.out.zf,
                     !.g_in.RX = s.in.rx0, !.g_in.RP = s.in.rp,
                     !.g_in.RZ = Zeros(Len(@))]
      b == [a EXCEPT !.g_out = spEvaluateFX(DepG(jac.g), a.g_in, @)]
  IN [b EXCEPT !.tmp_g1 = b.g_out.ODE \o b.g_out.ALG]

\* Lines 510-515: the interdependencies of the backward problem; rxf and
\* rzf are written.
SolveG(s) ==
  LET a == [s EXCEPT !.tmp_g2 = s.in.rx0 \o Zeros(nrz_)]
      b == [a EXCEPT !.tmp_g2 = spSolve(spJacG, @, a.tmp_g1, TRUE)]
  IN [b EXCEPT !.out.rxf = SubSeq(b.tmp_g2, 1, nrx_),
               !.out.rzf = SubSeq(b.tmp_g2, nrx_ + 1, nrx_ + nrz_)]

\* Lines 517-523: the influence on the backward quadratures.
QuadG(s) ==
  IF nrq_ > 0
  THEN LET a == [s EXCEPT !.g_in.RX = SubSeq(s.tmp_g2, 1, nrx_),
                          !.g_in.RZ = s.out.rzf]
           b == [a EXCEPT !.g_out = spEvaluateFX(DepG(jac.g), a.g_in, @)]
       IN [b EXCEPT !.out.rqf = b.g_out.QUAD]
  ELSE s

\* Lines 468-525 and 556-596: spEvaluate(true).  The second part of the
\* forward branch only accumulates all_depend: its writes to the outputs
\* are commented out, so it changes nothing.
spForward(s) ==
  LET a == QuadF(SolveF(PropagateF(s)))
  IN IF g_.isNull THEN a ELSE QuadG(SolveG(PropagateG(a)))

\* Mutant of spReverse: the inputs are combined with all_depend by OR and
\* the initial guesses are left alone.
spReverse_Or(s) ==
  LET d1 == AnyBit(s.out.rxf) \/ AnyBit(s.out.rqf)
      d2 == d1 \/ AnyBit(s.out.xf) \/ AnyBit(s.out.qf)
  IN [s EXCEPT !.in.rx0 = [i \in 1..Len(@) |-> @[i] \/ d1],
               !.in.rp = [i \in 1..Len(@) |-> @[i] \/ d1],
               !.in.x0 = [i \in 1..Len(@) |-> @[i] \/ d2],
               !.in.p = [i \in 1..Len(@) |-> @[i] \/ d2]]

\* Lines 526-530 and 598-639: spEvaluate(false).  z0 and rz0 are zeroed;
\* all_depend collects the bits of rxf and rqf and is assigned to every
\* element of rx0 and rp; it then collects the bits of xf and qf as well and
\* is assigned to every element of x0 and p.
spReverse(s) ==
  LET d1 == AnyBit(s.out.rxf) \/ AnyBit(s.out.rqf)
      d2 == d1 \/ AnyBit(s.out.xf) \/ AnyBit(s.out.qf)
  IN [s EXCEPT !.in.z0 = Zeros(Len(@)),
               !.in.rz0 = Zeros(Len(@)),
               !.in.rx0 = Fill(Len(@), d1),
               !.in.rp = Fill(Len(@), d1),
               !.in.x0 = Fill(Len(@), d2),
               !.in.p = Fill(Len(@), d2)]

\* The bits that spEvaluate works on: those of the integrator's inputs and
\* outputs and those of the buffers.
Bits ==
  [in |-> bv.in, out |-> bv.out,
   f_in |-> buf.f_in, f_out |-> buf.f_out,
   g_in |-> buf.g_in, g_out |-> buf.g_out,
   tmp_f1 |-> buf.tmp_f1, tmp_f2 |-> buf.tmp_f2,
   tmp_g1 |-> buf.tmp_g1, tmp_g2 |-> buf.tmp_g2]

\* IntegratorInternal::spEvaluate(fwd)
spEvaluate(fwd) == IF fwd THEN spForward(Bits) ELSE spReverse(Bits)

\* The last two propagations once o has run.
Ran(o) == IF ops = <<>> THEN <<o>> ELSE <<Last(ops), o>>

\* The elements of the integrator's inputs and outputs.
Elements ==
  {<<"in", n, i>> : n \in DOMAIN bv.in, i \in 1..MaxSpTotal} \cup
  {<<"out", n, i>> : n \in DOMAIN bv.out, i \in 1..MaxSpTotal}

\* The caller sets dependency bits on the inputs (the seeds of a forward
\* propagation) and on the outputs (the seeds of a reverse one) of an
\* integrator that holds none yet.
SetBV ==
  /\ phase = "initialized"
  /\ ops = <<>>
  /\ bv = ZeroBV(input_, output_)
  /\ \E S \in SUBSET {e \in Elements : e[3] <= Len(bv[e[1]][e[2]])} :
       /\ Cardinality(S) \in 1..MaxSeeds
       /\ bv' = [in |-> [n \in DOMAIN bv.in |->
                           [i \in 1..Len(bv.in[n]) |-> <<"in", n, i>> \in S]],
                 out |-> [n \in DOMAIN bv.out |->
                           [i \in 1..Len(bv.out[n]) |-> <<"out", n, i>> \in S]]]
  /\ prev' = bv'
  /\ UNCHANGED <<f_, g_, phase, dims, input_, output_, buildvars, jac, buf, ops,
                 registry, times, lifevars, error, kept>>

\* The bits s that a propagation leaves are those of the integrator.
Stored(s) ==
  /\ bv' = [in |-> s.in, out |-> s.out]
  /\ buf' = [n \in DOMAIN buf |-> s[n]]

\* The step of a call of spEvaluate(fwd).
SpEvaluated(fwd) ==
  /\ Stored(spEvaluate(fwd))
  /\ prev' = bv
  /\ ops' = Ran(IF fwd THEN "fwd" ELSE "rev")

\* A call of spEvaluate(true) on the initialized integrator.
SpEvaluateFwd ==
  /\ phase = "initialized"
  /\ SpEvaluated(TRUE)
  /\ UNCHANGED <<f_, g_, phase, dims, input_, output_, buildvars, jac,
                 registry, times, lifevars, error, kept>>

\* A call of spEvaluate(false) on the initialized integrator.
SpEvaluateRev ==
  /\ phase = "initialized"
  /\ SpEvaluated(FALSE)
  /\ UNCHANGED <<f_, g_, phase, dims, input_, output_, buildvars, jac,
                 registry, times, lifevars, error, kept>>

\* A dense column vector of n elements.
Column(n) == Matrix(n, n)

\* The callbacks are ones whose ports are dense column vectors of at most
\* total elements together, with either structural Jacobian.
ColumnPorts(total) ==
  \E n1 \in 0..total : \E n2 \in 0..(total - n1) :
  \E n3 \in 0..(total - n1 - n2) : \E n4 \in 0..(total - n1 - n2 - n3) :
    /\ f_ = DaeFX(Column(n1), Column(n2), Column(n3), Column(n4))
    /\ \/ g_ = NullFX /\ jac \in [f : Kinds, g : {"dense"}]
       \/ LET rest == total - n1 - n2 - n3 - n4 IN
          \E b1 \in 0..rest : \E b2 \in 0..(rest - b1) :
          \E b3 \in 0..(rest - b1 - b2) : \E b4 \in 0..(rest - b1 - b2 - b3) :
            /\ g_ = RdaeFX(f_, Column(b1), Column(b2), Column(b3), Column(b4))
            /\ jac \in [f : Kinds, g : Kinds]

\* An integrator is constructed on callbacks whose ports are dense column
\* vectors, with either structural Jacobian.
InitSP ==
  /\ ColumnPorts(MaxSpTotal)
  /\ kept = EmptyMap
  /\ NewIntegrator

\* The same, on the callbacks of an integrator whose propagation is
\* compared with runs on other inputs.
InitFlow ==
  /\ ColumnPorts(MaxFlowTotal)
  /\ kept = EmptyMap
  /\ NewIntegrator

NextSP == init \/ SetBV \/ SpEvaluateFwd \/ SpEvaluateRev

SpecSP == InitSP /\ [][NextSP]_vars

SpecFlow == InitFlow /\ [][NextSP]_vars

\* What the integrator itself holds: a builder reads it and leaves it alone.
persistent == <<f_, g_, phase, dims, input_, output_, registry, times>>

\* What the caller holds for arguments (nfwd, nadj) that it follows until
\* a builder has been called with them.
NotKept == [offset |-> NoOffset, later |-> 0]

\* The caller keeps the AugOffset off of the first call with the arguments
\* (nfwd, nadj), when it follows these arguments, and counts up to two
\* builder calls made after that one.
Keep(nfwd, nadj, off) ==
  [a \in DOMAIN kept |->
     IF kept[a] # NotKept
     THEN [kept[a] EXCEPT !.later = IF @ < 2 THEN @ + 1 ELSE @]
     ELSE IF a = <<nfwd, nadj>> THEN [offset |-> off, later |-> 0]
     ELSE kept[a]]

\* A call of getAugOffset(nfwd, nadj) on the initialized integrator.
GetAugOffset ==
  /\ phase = "initialized"
  /\ call = NoCall
  /\ pc = "idle"
  /\ \E nfwd \in 0..MaxFwd, nadj \in 0..MaxAdj :
       /\ offset' = getAugOffset(nfwd, nadj)
       /\ call' = [op |-> "getAugOffset", nfwd |-> nfwd, nadj |-> nadj]
       /\ kept' = Keep(nfwd, nadj, offset')
  /\ aug' = NoAug
  /\ der' = NoDer
  /\ UNCHANGED <<persistent, spvars, lifevars, error>>

\* Mutant of GetAugmented: the builder leaves the current time at the end of
\* the time horizon.
GetAugmented_MovesTime ==
  /\ phase = "initialized"
  /\ call = NoCall
  /\ pc = "idle"
  /\ \E nfwd \in 0..MaxFwd, nadj \in 0..MaxAdj :
       /\ aug' = getAugmented(nfwd, nadj)
       /\ offset' = aug'.offset
       /\ call' = [op |-> "getAugmented", nfwd |-> nfwd, nadj |-> nadj]
       /\ kept' = Keep(nfwd, nadj, offset')
  /\ der' = NoDer
  /\ t_' = tf_
  /\ UNCHANGED <<f_, g_, phase, dims, input_, output_, registry, t0_, tf_,
                 spvars, lifevars, error>>

\* A call of getAugmented(nfwd, nadj, offset) on the initialized integrator.
GetAugmented ==
  /\ phase = "initialized"
  /\ call = NoCall
  /\ pc = "idle"
  /\ \E nfwd \in 0..MaxFwd, nadj \in 0..MaxAdj :
       /\ aug' = getAugmented(nfwd, nadj)
       /\ offset' = aug'.offset
       /\ call' = [op |-> "getAugmented", nfwd |-> nfwd, nadj |-> nadj]
       /\ kept' = Keep(nfwd, nadj, offset')
  /\ der' = NoDer
  /\ UNCHANGED <<persistent, spvars, lifevars, error>>

\* A call of getDerivative(nfwd, nadj) on the initialized integrator.
GetDerivative ==
  /\ phase = "initialized"
  /\ call = NoCall
  /\ pc = "idle"
  /\ \E nfwd \in 0..MaxFwd, nadj \in 0..MaxAdj :
       /\ aug' = getAugmented(nfwd, nadj)
       /\ offset' = aug'.offset
       /\ der' = getDerivative(aug', nfwd, nadj)
       /\ call' = [op |-> "getDerivative", nfwd |-> nfwd, nadj |-> nadj]
       /\ kept' = Keep(nfwd, nadj, offset')
  /\ UNCHANGED <<persistent, spvars, lifevars, error>>

\* The builder call returns: its results belong to the caller and are not
\* kept by the integrator.
Return ==
  /\ call # NoCall
  /\ call' = NoCall
  /\ offset' = NoOffset
  /\ aug' = NoAug
  /\ der' = NoDer
  /\ UNCHANGED <<persistent, spvars, lifevars, error, kept>>

Next == init \/ GetAugOffset \/ GetAugmented \/ GetDerivative \/ Return

Spec == Init /\ [][Next]_vars

\* An integrator is constructed on callbacks whose ports are dense column
\* vectors; its caller follows one pair of arguments (nfwd, nadj) through
\* the builder calls.
InitPure ==
  /\ \E n1 \in 0..MaxPureTotal : \E n2 \in 0..(MaxPureTotal - n1) :
     \E n3 \in 0..(MaxPureTotal - n1 - n2) : \E n4 \in 0..(MaxPureTotal - n1 - n2 - n3) :
       /\ f_ = DaeFX(Column(n1), Column(n2), Column(n3), Column(n4))
       /\ \/ g_ = NullFX
          \/ LET rest == MaxPureTotal - n1 - n2 - n3 - n4 IN
             \E b1 \in 0..rest : \E b2 \in 0..(rest - b1) :
             \E b3 \in 0..(rest - b1 - b2) : \E b4 \in 0..(rest - b1 - b2 - b3) :
               g_ = RdaeFX(f_, Column(b1), Column(b2), Column(b3), Column(b4))
  /\ jac = [f |-> "dense", g |-> "dense"]
  /\ \E nfwd \in 0..MaxFwd, nadj \in 0..MaxAdj :
       kept = [a \in {<<nfwd, nadj>>} |-> NotKept]
  /\ NewIntegrator

SpecPure == InitPure /\ [][Next]_vars

\* ------------------------------------------------------------- evaluate
\* The callbacks that differ from a well-formed forward callback f in one
\* respect: a number of ports, or the shape of the ODE or of the
\* algebraic output.
DefectMatrices == {EmptyMatrix} \cup MatricesWithRows(1)
DefectiveF(f) ==
  {[f EXCEPT !.nin = DAE_NUM_IN - 1], [f EXCEPT !.nout = DAE_NUM_OUT + 1]}
    \cup {[f EXCEPT !.ode = m] : m \in DefectMatrices \ {f.x}}
    \cup {[f EXCEPT !.alg = m] : m \in DefectMatrices \ {f.z}}

\* The same for a backward callback g: a number of ports, the shape of its
\* x, z or p input, or of its ODE or algebraic output.
DefectiveG(g) ==
  {[g EXCEPT !.nin = RDAE_NUM_IN + 1], [g EXCEPT !.nout = RDAE_NUM_OUT - 1]}
    \cup {[g EXCEPT !.x = m] : m \in DefectMatrices \ {g.x}}
    \cup {[g EXCEPT !.z = m] : m \in DefectMatrices \ {g.z}}
    \cup {[g EXCEPT !.p = m] : m \in DefectMatrices \ {g.p}}
    \cup {[g EXCEPT !.ode = m] : m \in DefectMatrices \ {g.rx}}
    \cup {[g EXCEPT !.alg = m] : m \in DefectMatrices \ {g.rz}}

\* An integrator is constructed on callbacks of any sort, well-formed or
\* with one defect, or on a null forward callback; its user has set the
\* option print_stats to either value.
InitLife ==
  /\ \E r1 \in 0..MaxLifeTotal : \E r2 \in 0..(MaxLifeTotal - r1) :
     \E r3 \in 0..(MaxLifeTotal - r1 - r2) :
     \E r4 \in 0..(MaxLifeTotal - r1 - r2 - r3) :
     \E mx \in MatricesWithRows(r1), mz \in MatricesWithRows(r2),
        mp \in MatricesWithRows(r3), mq \in MatricesWithRows(r4) :
       LET f == DaeFX(mx, mz, mp, mq)
           rest == MaxLifeTotal - r1 - r2 - r3 - r4
       IN \/ f_ \in {f} \cup DefectiveF(f) /\ g_ = NullFX
          \/ f_ = [NullFX EXCEPT !.nin = DAE_NUM_IN, !.nout = DAE_NUM_OUT]
               /\ g_ = NullFX
          \/ \E b1 \in 0..rest : \E b2 \in 0..(rest - b1) :
             \E b3 \in 0..(rest - b1 - b2) : \E b4 \in 0..(rest - b1 - b2 - b3) :
             \E mrx \in MatricesWithRows(b1), mrz \in MatricesWithRows(b2),
                mrp \in MatricesWithRows(b3), mrq \in MatricesWithRows(b4) :
               LET g == RdaeFX(f, mrx, mrz, mrp, mrq)
               IN \/ f_ \in {f} \cup DefectiveF(f) /\ g_ = g
                  \/ f_ = f /\ g_ \in DefectiveG(g)
  /\ jac = [f |-> "dense", g |-> "dense"]
  /\ kept = EmptyMap
  /\ Constructed
  /\ \E v \in {"false", "true"} :
       LET r == setOption(IntegratorRegistry, "print_stats", v)
       IN allowed_options = r.allowed /\ options = r.options

\* What evaluate() leaves alone.
evalframe == <<f_, g_, phase, dims, input_, output_, buildvars, spvars,
               registry, t0_, tf_, result, kept>>

\* evaluate() is called on the initialized integrator and calls reset(),
\* which goes to the start time.  (reset() also copies x0 and z0 to xf
\* and zf and zeroes qf: values, which the model does not hold.)
Evaluate ==
  /\ phase = "initialized"
  /\ pc = "idle"
  /\ call = NoCall
  /\ t_' = t0_
  /\ calls' = <<"reset">>
  /\ error' = "none"
  /\ pc' = "integrate"
  /\ UNCHANGED evalframe

\* integrate(tf_) returns, and evaluate() goes on to the backward phase
\* if(nrx_>0); or it throws, and so does evaluate().
Integrate ==
  /\ pc = "integrate"
  /\ \/ /\ calls' = Append(calls, "integrate")
        /\ t_' = tf_
        /\ pc' = IF nrx_ > 0 THEN "resetB" ELSE "printStats"
        /\ UNCHANGED error
     \/ /\ error' = "integrate failed"
        /\ pc' = "idle"
        /\ UNCHANGED <<calls, t_>>
  /\ UNCHANGED evalframe

\* Mutant of ResetB: the backward problem is not re-initialized.
ResetB_Skipped ==
  /\ pc = "resetB"
  /\ pc' = "integrateB"
  /\ UNCHANGED <<evalframe, calls, t_, error>>

\* resetB(): goes to the end time.
ResetB ==
  /\ pc = "resetB"
  /\ t_' = tf_
  /\ calls' = Append(calls, "resetB")
  /\ pc' = "integrateB"
  /\ UNCHANGED <<evalframe, error>>

\* integrateB(t0_) returns, or throws.
IntegrateB ==
  /\ pc = "integrateB"
  /\ \/ /\ calls' = Append(calls, "integrateB")
        /\ t_' = t0_
        /\ pc' = "printStats"
        /\ UNCHANGED error
     \/ /\ error' = "integrateB failed"
        /\ pc' = "idle"
        /\ UNCHANGED <<calls, t_>>
  /\ UNCHANGED evalframe

\* if(getOption("print_stats")) printStats(std::cout); and evaluate()
\* returns.
PrintStats ==
  /\ pc = "printStats"
  /\ LET got == getOption(options, "print_stats") IN
     /\ error' = got.error
     /\ calls' = IF got.error = "none" /\ toBool(got.value)
                 THEN Append(calls, "printStats") ELSE calls
  /\ pc' = "idle"
  /\ UNCHANGED <<evalframe, t_>>

NextLife == init \/ Evaluate \/ Integrate \/ ResetB \/ IntegrateB \/ PrintStats

SpecLife == InitLife /\ [][NextLife]_vars

\* ------------------------------------------------- the registry in use
\* The types and the values that options are registered and set with.
OptionTypes == {"OT_REAL", "OT_STRING"}
OptionValues == {"a", "b"}

\* The names of OptionNames from the i-th on.
NamesFrom(i) == {OptionNames[j] : j \in i..Len(OptionNames)}

\* The value maps of the objects that options are copied from.
SourceMaps ==
  UNION {[S -> OptionValues] : S \in SUBSET NamesFrom(1)}

\* The registry r is the one of the object.
Saved(r) ==
  /\ allowed_options' = r.allowed
  /\ options' = r.options
  /\ error' = r.error

\* What the calls on the registry leave alone.
members == <<f_, g_, phase, dims, input_, output_, buildvars, spvars,
             times, pc, calls, kept>>

\* A call of addOption(name, type, def_val).
AddOption ==
  /\ \E name \in NamesFrom(1), type \in OptionTypes,
        def_val \in OptionValues \cup {NullOption} :
       /\ Saved(addOption(Registry(allowed_options, options, "none"),
                          name, type, def_val))
       /\ result' = [op |-> "addOption", name |-> name, value |-> def_val]
  /\ UNCHANGED members

\* A call of setOption(name, op).
SetOption ==
  /\ \E name \in NamesFrom(1), op \in OptionValues \cup {NullOption} :
       /\ Saved(setOption(Registry(allowed_options, options, "none"), name, op))
       /\ result' = [op |-> "setOption", name |-> name, value |-> op]
  /\ UNCHANGED members

\* A call of getOption(name).
GetOption ==
  /\ \E name \in NamesFrom(1) :
       LET got == getOption(options, name) IN
       /\ error' = got.error
       /\ result' = [op |-> "getOption", name |-> name, value |-> got.value]
  /\ UNCHANGED <<members, registry>>

\* A call of hasSetOption(str).
HasSetOption ==
  /\ \E str \in NamesFrom(1) :
       LET got == hasSetOption(Registry(allowed_options, options, "none"), str) IN
       /\ error' = got.error
       /\ result' = [op |-> "hasSetOption", name |-> str, value |-> got.value]
  /\ UNCHANGED <<members, registry>>

\* A call of copyOptions(obj), obj holding the values src.
CopyOptions ==
  /\ \E src \in SourceMaps :
       /\ Saved(copyOptions(Registry(allowed_options, options, "none"), src))
       /\ result' = [op |-> "copyOptions", name |-> "", value |-> src]
  /\ UNCHANGED members

\* An object with an options registry has been constructed; the members of
\* an integrator play no part.
InitOpt ==
  /\ f_ = DaeFX(EmptyMatrix, EmptyMatrix, EmptyMatrix, EmptyMatrix)
  /\ g_ = NullFX
  /\ jac = [f |-> "dense", g |-> "dense"]
  /\ kept = EmptyMap
  /\ Constructed
  /\ allowed_options = NewRegistry.allowed
  /\ options = NewRegistry.options

NextOpt == AddOption \/ SetOption \/ GetOption \/ HasSetOption \/ CopyOptions

SpecOpt == InitOpt /\ [][NextOpt]_vars

\* ======================================================================
\* Properties of the offsets (getAugOffset)
\* ======================================================================
NonDecreasing(v) == \A i \in 1..(Len(v) - 1) : v[i] <= v[i + 1]
StrictlyIncreasing(v) == \A i \in 1..(Len(v) - 1) : v[i] < v[i + 1]

\* An offset has been computed by the call in progress.
HaveOffset == call.op \in {"getAugOffset", "getAugmented", "getDerivative"}

\* Number of rows a port contributes per direction: none when its dimension
\* (its number of nonzeros) is zero.
Rows(dim, m) == IF dim > 0 THEN m.size1 ELSE 0

\* Number of blocks a port contributes over n directions.
Blocks(dim, n) == IF dim > 0 THEN n ELSE 0

\* Every port is a dense column vector: as many nonzeros as rows.
DenseColumns ==
  /\ \A n \in {"x", "z", "p", "quad"} : f_[n].size = f_[n].size1
  /\ \A n \in {"rx", "rz", "rp", "quad"} : g_[n].size = g_[n].size1

\* The last offsets as the claim C1 words them, in terms of the dimensions.
LastByDimension ==
  LET F == 1 + call.nfwd
      A == call.nadj
  IN /\ Last(offset.x) = F * nx_ + A * nrx_
     /\ Last(offset.z) = F * nz_ + A * nrz_
     /\ Last(offset.q) = F * nq_ + A * nrp_
     /\ Last(offset.p) = F * np_ + A * nrq_
     /\ Last(offset.rx) = F * nrx_ + A * nx_
     /\ Last(offset.rz) = F * nrz_ + A * nz_
     /\ Last(offset.rq) = F * nrq_ + A * np_
     /\ Last(offset.rp) = F * nrp_ + A * nq_

\* The last offsets in terms of the row counts of the contributing ports.
LastByRows ==
  LET F == 1 + call.nfwd
      A == call.nadj
  IN /\ Last(offset.x) = F * Rows(nx_, input_.x0) + A * Rows(nrx_, input_.rx0)
     /\ Last(offset.z) = F * Rows(nz_, input_.z0) + A * Rows(nrz_, input_.rz0)
     /\ Last(offset.q) = F * Rows(nq_, output_.qf) + A * Rows(nrp_, input_.rp)
     /\ Last(offset.p) = F * Rows(np_, input_.p) + A * Rows(nrq_, output_.rqf)
     /\ Last(offset.rx) = F * Rows(nrx_, input_.rx0) + A * Rows(nx_, input_.x0)
     /\ Last(offset.rz) = F * Rows(nrz_, input_.rz0) + A * Rows(nz_, input_.z0)
     /\ Last(offset.rq) = F * Rows(nrq_, output_.rqf) + A * Rows(np_, input_.p)
     /\ Last(offset.rp) = F * Rows(nrp_, input_.rp) + A * Rows(nq_, output_.qf)

\* C1, as stated: every sequence is non-decreasing and ends at
\* (1+nfwd) * (its own dimension) + nadj * (the swapped dimension).
C1_LastByDimension ==
  HaveOffset =>
    /\ \A n \in OffsetNames : NonDecreasing(offset[n])
    /\ LastByDimension

\* C1, amended: every sequence is non-decreasing and ends at the sum of the
\* ROW COUNTS (size1) of the blocks contributed to it, a port contributing
\* when its dimension (its number of nonzeros) is positive; this is the
\* formula in the dimensions whenever every port is a dense column vector.
C1_LastByRows ==
  HaveOffset =>
    /\ \A n \in OffsetNames : NonDecreasing(offset[n])
    /\ LastByRows
    /\ DenseColumns => LastByDimension

\* The scenario nx=2, np=1, no backward problem, nfwd=1, nadj=0.
C1_Witness ==
  /\ call = [op |-> "getAugOffset", nfwd |-> 1, nadj |-> 0]
  /\ g_.isNull /\ nx_ = 2 /\ nz_ = 0 /\ np_ = 1
  /\ offset.x = <<0, 2, 4>>
  /\ Last(offset.p) = 2

\* C2: every sequence starts with 0, has one element more than the number
\* of directions that contribute a block to it, and is strictly increasing
\* (no zero-width slot); a sequence nothing contributes to is exactly <<0>>.
C2_NoZeroWidthSlot ==
  HaveOffset =>
    LET F == 1 + call.nfwd
        A == call.nadj
        Count == [x |-> Blocks(nx_, F) + Blocks(nrx_, A),
                  z |-> Blocks(nz_, F) + Blocks(nrz_, A),
                  q |-> Blocks(nq_, F) + Blocks(nrp_, A),
                  p |-> Blocks(np_, F) + Blocks(nrq_, A),
                  rx |-> Blocks(nrx_, F) + Blocks(nx_, A),
                  rz |-> Blocks(nrz_, F) + Blocks(nz_, A),
                  rq |-> Blocks(nrq_, F) + Blocks(np_, A),
                  rp |-> Blocks(nrp_, F) + Blocks(nq_, A)]
    IN \A n \in OffsetNames :
         /\ offset[n][1] = 0
         /\ Len(offset[n]) = 1 + Count[n]
         /\ StrictlyIncreasing(offset[n])
         /\ Count[n] = 0 => offset[n] = <<0>>

\* A zero dimension next to nonzero ones: z has no entry, x has three.
C2_Witness ==
  /\ call = [op |-> "getAugOffset", nfwd |-> 1, nadj |-> 1]
  /\ nx_ > 0 /\ nrx_ > 0 /\ nz_ = 0 /\ nrz_ = 0
  /\ Len(offset.x) = 4
  /\ offset.z = <<0>>

\* The widths of the slots that follow the first k slots of a sequence.
SlotsAfter(v, k) == [i \in 1..(Len(v) - 1 - k) |-> v[k + i + 1] - v[k + i]]

\* n slots of width w.
Slots(n, w) == [i \in 1..n |-> w]

\* C3, as stated: the adjoint directions append nx to rx, nz to rz, np to
\* rq, nrx to x, nrz to z, nrp to q and nrq to p after the blocks of the
\* nondifferentiated and forward directions, and grow no other sequence
\* (rp is left with its 1+nfwd blocks).
C3_SwapByDimension ==
  HaveOffset =>
    LET F == 1 + call.nfwd
        A == call.nadj
    IN /\ SlotsAfter(offset.rx, Blocks(nrx_, F)) = Slots(Blocks(nx_, A), nx_)
       /\ SlotsAfter(offset.rz, Blocks(nrz_, F)) = Slots(Blocks(nz_, A), nz_)
       /\ SlotsAfter(offset.rq, Blocks(nrq_, F)) = Slots(Blocks(np_, A), np_)
       /\ SlotsAfter(offset.x, Blocks(nx_, F)) = Slots(Blocks(nrx_, A), nrx_)
       /\ SlotsAfter(offset.z, Blocks(nz_, F)) = Slots(Blocks(nrz_, A), nrz_)
       /\ SlotsAfter(offset.q, Blocks(nq_, F)) = Slots(Blocks(nrp_, A), nrp_)
       /\ SlotsAfter(offset.p, Blocks(np_, F)) = Slots(Blocks(nrq_, A), nrq_)
       /\ SlotsAfter(offset.rp, Blocks(nrp_, F)) = <<>>

\* C3, amended: the adjoint directions grow all eight sequences: each appends
\* the row count of x0 to rx, of z0 to rz, of p to rq and of qf to rp, and the
\* row count of rx0 to x, of rz0 to z, of rp to q and of rqf to p (a port
\* of dimension zero appends nothing), after the blocks of the
\* nondifferentiated and forward directions.
C3_SwapRule ==
  HaveOffset =>
    LET F == 1 + call.nfwd
        A == call.nadj
    IN /\ SlotsAfter(offset.rx, Blocks(nrx_, F)) = Slots(Blocks(nx_, A), input_.x0.size1)
       /\ SlotsAfter(offset.rz, Blocks(nrz_, F)) = Slots(Blocks(nz_, A), input_.z0.size1)
       /\ SlotsAfter(offset.rq, Blocks(nrq_, F)) = Slots(Blocks(np_, A), input_.p.size1)
       /\ SlotsAfter(offset.rp, Blocks(nrp_, F)) = Slots(Blocks(nq_, A), output_.qf.size1)
       /\ SlotsAfter(offset.x, Blocks(nx_, F)) = Slots(Blocks(nrx_, A), input_.rx0.size1)
       /\ SlotsAfter(offset.z, Blocks(nz_, F)) = Slots(Blocks(nrz_, A), input_.rz0.size1)
       /\ SlotsAfter(offset.q, Blocks(nq_, F)) = Slots(Blocks(nrp_, A), input_.rp.size1)
       /\ SlotsAfter(offset.p, Blocks(np_, F)) = Slots(Blocks(nrq_, A), output_.rqf.size1)

\* The scenario nx=1, nz=0, np=0, nrx=1, nfwd=0, nadj=1: rx = [0,1,2].
C3_Witness ==
  /\ call = [op |-> "getAugOffset", nfwd |-> 0, nadj |-> 1]
  /\ ~g_.isNull /\ nx_ = 1 /\ nz_ = 0 /\ np_ = 0 /\ nrx_ = 1
  /\ offset.rx = <<0, 1, 2>>
  /\ offset.x = <<0, 1, 2>>

\* ======================================================================
\* Properties of the augmented problem (getAugmented)
\* ======================================================================
\* An augmented problem has been built by the call in progress.
HaveAug == call.op \in {"getAugmented", "getDerivative"}

\* C4: getAugmented(0,0) on an integrator with no backward problem returns
\* the forward problem object f_ itself as the first element of the pair and
\* a null function as the second, whatever the dimensions.
C4_IdentityReuse ==
  (HaveAug /\ call.nfwd = 0 /\ call.nadj = 0 /\ g_.isNull) =>
    /\ aug.first.obj = "f_"
    /\ aug.second = NoFunction

\* getAugmented(0,0) has returned for a forward problem with states,
\* algebraic variables and quadratures and no backward problem.
C4_Witness ==
  /\ call = [op |-> "getAugmented", nfwd |-> 0, nadj |-> 0]
  /\ g_.isNull /\ nx_ > 0 /\ nz_ > 0 /\ nq_ > 0
  /\ aug.built /\ aug.first.obj = "f_" /\ aug.second.obj = "null"

\* C5: the output lists assembled by getAugmented have the heights of the
\* offsets: f_ode, f_alg, f_quad end at x.last, z.last, q.last and g_ode,
\* g_alg, g_quad at rx.last, rz.last, rq.last.
C5_OutputHeights ==
  HaveAug =>
    /\ Height(aug.f_ode) = Last(offset.x)
    /\ Height(aug.f_alg) = Last(offset.z)
    /\ Height(aug.f_quad) = Last(offset.q)
    /\ Height(aug.g_ode) = Last(offset.rx)
    /\ Height(aug.g_alg) = Last(offset.rz)
    /\ Height(aug.g_quad) = Last(offset.rq)

\* Forward and adjoint directions of a problem with a backward problem:
\* both ODE lists hold three blocks.
C5_Witness ==
  /\ call = [op |-> "getAugmented", nfwd |-> 1, nadj |-> 1]
  /\ ~g_.isNull /\ nx_ > 0 /\ nrx_ > 0
  /\ Len(aug.f_ode) = 3 /\ Len(aug.g_ode) = 3
  /\ Height(aug.f_ode) = 2 * input_.x0.size1 + input_.rx0.size1
  /\ Height(aug.g_ode) = 2 * input_.rx0.size1 + input_.x0.size1

\* C6: no cursor of getAugmented is dereferenced at or past the end of its
\* block list, every one of the six cursors ends exactly at the end of its
\* list, and none of the assertions (res_it==res.end(), the g_*_ind checks,
\* the six final cursor checks) fails.
C6_CursorsConsumed ==
  HaveAug =>
    /\ ~aug.overrun
    /\ aug.assert_ok
    /\ \A n \in CursorNames : aug.it[n] = aug.nsplit[n]

\* Forward and adjoint directions of a problem with a backward problem: the
\* cursor of aug_x has been over its three blocks (twice over the first two)
\* and the cursor of aug_rx over its three.
C6_Witness ==
  /\ call = [op |-> "getAugmented", nfwd |-> 1, nadj |-> 1]
  /\ ~g_.isNull /\ nx_ > 0 /\ nrx_ > 0 /\ np_ > 0
  /\ aug.nsplit.x = 3 /\ aug.it.x = 3
  /\ aug.nsplit.rx = 3 /\ aug.it.rx = 3
  /\ aug.assert_ok

\* ======================================================================
\* Properties of the derivative function (getDerivative)
\* ======================================================================
HaveDer == call.op = "getDerivative"

\* The block a slot of an adjoint tuple must hold: block number k (from 1)
\* after the `skip` leading blocks of the split `name`, or a null MX when the
\* guarding dimension is zero.
AdjBlock(dim, name, off, skip, k) ==
  IF dim > 0
  THEN Block(off[skip + k + 1] - off[skip + k], name, skip + k)
  ELSE NullMX

\* C7: every adjoint-direction tuple of the returned function has the six
\* input slots and no other; X0, P, Z0 hold the blocks of rxf, rqf, rzf and
\* RX0, RP, RZ0 the blocks of xf, qf, zf that follow the blocks of the
\* nondifferentiated and forward directions; the tuples before them are
\* output-shaped; the six split cursors end at the end of their lists and
\* are never dereferenced past it.
C7_AdjointInputShaped ==
  HaveDer =>
    LET F == 1 + call.nfwd
        A == call.nadj
    IN /\ Len(der.ret_out) = F + A
       /\ \A k \in 1..F : DOMAIN der.ret_out[k] = DOMAIN NullOut
       /\ \A k \in 1..A :
            LET t == der.ret_out[F + k]
            IN /\ DOMAIN t = DOMAIN NullIn
               /\ t.X0 = AdjBlock(nx_, "rxf_aug", offset.rx, Blocks(nrx_, F), k)
               /\ t.P = AdjBlock(np_, "rqf_aug", offset.rq, Blocks(nrq_, F), k)
               /\ t.Z0 = AdjBlock(nz_, "rzf_aug", offset.rz, Blocks(nrz_, F), k)
               /\ t.RX0 = AdjBlock(nrx_, "xf_aug", offset.x, Blocks(nx_, F), k)
               /\ t.RP = AdjBlock(nrp_, "qf_aug", offset.q, Blocks(nq_, F), k)
               /\ t.RZ0 = AdjBlock(nrz_, "zf_aug", offset.z, Blocks(nz_, F), k)
       /\ ~der.overrun
       /\ \A n \in OutNames : der.it[n] = der.nsplit[n]

\* The scenario nadj=1, nfwd=0 with a backward problem: the X0 slot of the
\* adjoint tuple holds the second block of rxf, its RX0 slot the second
\* block of xf.
C7_Witness ==
  /\ call = [op |-> "getDerivative", nfwd |-> 0, nadj |-> 1]
  /\ ~g_.isNull /\ nx_ > 0 /\ nrx_ > 0
  /\ Len(der.ret_out) = 2
  /\ der.ret_out[2].X0 = Block(input_.x0.size1, "rxf_aug", 2)
  /\ der.ret_out[2].RX0 = Block(input_.rx0.size1, "xf_aug", 2)

\* The heights of the blocks of a list that have rows.
BlockHeights(l) ==
  LET h == [i \in 1..Len(l) |-> l[i].size1]
  IN SelectSeq(h, LAMBDA n : n > 0)

\* C8, as stated: the six augmented input vectors built by getDerivative
\* have their blocks in the order and of the sizes of the offset sequences
\* x, p, z, rx, rp, rz, so every concatenated height is the last offset.
C8_InputsMatchOffsets ==
  HaveDer =>
    LET m == [x0 |-> "x", p |-> "p", z0 |-> "z",
              rx0 |-> "rx", rp |-> "rp", rz0 |-> "rz"]
    IN \A n \in InNames :
         /\ BlockHeights(der.in_aug[n]) = SlotsAfter(offset[m[n]], 0)
         /\ Height(der.in_aug[n]) = Last(offset[m[n]])

\* ======================================================================
\* Properties of the structural propagation (spEvaluate)
\* ======================================================================
\* The last propagation run was spEvaluate(true) / spEvaluate(false).
RanFwd == ops # <<>> /\ Last(ops) = "fwd"
RanRev == ops # <<>> /\ Last(ops) = "rev"

\* C9: spEvaluate(true) does not change the bits of the inputs, and run a
\* second time in a row (on the same input bits) it leaves on every output
\* the bits the first run left.
C9_ForwardIdempotent ==
  /\ RanFwd => bv.in = prev.in
  /\ ops = <<"fwd", "fwd">> => bv.out = prev.out

\* Two forward runs in a row on a problem with states, algebraic variables
\* and a backward problem, with bits on the inputs and on the outputs.
C9_Witness ==
  /\ ops = <<"fwd", "fwd">>
  /\ nx_ > 0 /\ nz_ > 0 /\ ~g_.isNull /\ nrx_ > 0
  /\ AnyBit(bv.in.x0) /\ AnyBit(bv.out.zf) /\ AnyBit(bv.out.rxf)

\* Every bit set before the last propagation is still set after it.
NoBitCleared ==
  /\ \A n \in DOMAIN bv.in : \A i \in 1..Len(bv.in[n]) :
       prev.in[n][i] => bv.in[n][i]
  /\ \A n \in DOMAIN bv.out : \A i \in 1..Len(bv.out[n]) :
       prev.out[n][i] => bv.out[n][i]

\* C10, as stated: spEvaluate(false) clears no bit of any input or output.
C10_NoBitCleared == RanRev => NoBitCleared

\* C10, amended: spEvaluate(false) leaves the bits of the six outputs as
\* they are, clears every bit of z0 and rz0, and OVERWRITES the other
\* inputs: every element of rx0 and rp receives the OR of the bits of rxf
\* and rqf, every element of x0 and p the OR of the bits of rxf, rqf, xf
\* and qf; a bit an input held before the call survives only when it is
\* among these.
C10_ReverseOverwrites ==
  RanRev =>
    LET d1 == AnyBit(prev.out.rxf) \/ AnyBit(prev.out.rqf)
        d2 == d1 \/ AnyBit(prev.out.xf) \/ AnyBit(prev.out.qf)
    IN /\ bv.out = prev.out
       /\ bv.in.z0 = Zeros(nz_)
       /\ bv.in.rz0 = Zeros(nrz_)
       /\ bv.in.rx0 = Fill(nrx_, d1)
       /\ bv.in.rp = Fill(nrp_, d1)
       /\ bv.in.x0 = Fill(nx_, d2)
       /\ bv.in.p = Fill(np_, d2)

\* A reverse run on seeds on rx0 and on xf: the bit of xf has reached x0,
\* the bit of rx0 is gone.
C10_Witness ==
  /\ ops = <<"rev">>
  /\ nx_ > 0 /\ nrx_ > 0
  /\ AnyBit(prev.in.rx0) /\ AnyBit(prev.out.xf) /\ ~AnyBit(prev.out.rxf)
  /\ AnyBit(bv.in.x0) /\ ~AnyBit(bv.in.rx0)

\* ======================================================================
\* Properties of the backward augmented function (getAugmented)
\* ======================================================================
\* C16: getAugmented returns no backward augmented function exactly when
\* the three lists of backward outputs it collected (ODE, algebraic,
\* quadrature) are all empty.
C16_SkippedIffAllEmpty ==
  HaveAug =>
    (aug.second = NoFunction <=>
       (aug.g_ode = <<>> /\ aug.g_alg = <<>> /\ aug.g_quad = <<>>))

\* ======================================================================
\* Properties of the builders as operations on the integrator
\* ======================================================================
\* The arguments of the builder call in progress.
Args == <<call.nfwd, call.nadj>>

\* C14: a call of getAugOffset, getAugmented or getDerivative changes none
\* of the eight dimensions, t0, tf, the current time, the options and the
\* attached problems; and a call with given (nfwd, nadj) returns the
\* AugOffset that the first call with these arguments returned, whatever
\* calls were made in between.
C14_BuildersPure ==
  /\ [][(call'.op # "none" /\ call' # call) =>
          UNCHANGED <<dims, t0_, tf_, t_, allowed_options, options, f_, g_>>]_vars
  /\ []((HaveOffset /\ Args \in DOMAIN kept) => offset = kept[Args].offset)

\* A builder returns for arguments with adjoint directions, on an
\* integrator with a backward problem, the offsets that the first call
\* with these arguments returned two builder calls earlier.
C14_Witness ==
  /\ HaveOffset /\ Args \in DOMAIN kept /\ kept[Args].later = 2
  /\ call.nadj > 0 /\ nx_ > 0 /\ ~g_.isNull
  /\ offset = kept[Args].offset
  /\ Len(offset.rx) > 1

\* ======================================================================
\* Properties of the options registry
\* ======================================================================
\* The last call on the registry was op and raised an exception.
Failed(op) == result.op = op /\ error # "none"

\* C15: setOption with an unregistered name raises an error and leaves the
\* option map unchanged; getOption of a name that holds no value raises an
\* error; hasSetOption of an unregistered name raises an error and
\* otherwise returns whether a value is stored; a failing setOption,
\* getOption or hasSetOption changes nothing in the registry.
C15_FailingCalls ==
  [][/\ (result'.op = "setOption" /\ ~Has(allowed_options, result'.name)) =>
          (error' # "none" /\ options' = options)
     /\ (result'.op = "getOption" /\ ~Has(options, result'.name)) =>
          error' # "none"
     /\ result'.op = "hasSetOption" =>
          IF Has(allowed_options, result'.name)
          THEN error' = "none" /\ result'.value = Has(options, result'.name)
          ELSE error' # "none"
     /\ (result'.op \in {"setOption", "getOption", "hasSetOption"}
           /\ error' # "none") => UNCHANGED registry]_vars

\* setOption has failed on an unregistered name while another name, one
\* registered with a null default, still holds no value.
C15_Witness ==
  /\ Failed("setOption") /\ ~Has(allowed_options, result.name)
  /\ \E n \in DOMAIN allowed_options : ~Has(options, n)

\* The first name, in the order of the copy, that src holds and the target
\* has not registered; 0 when there is none.
FirstUnknown(src) ==
  LET U == {i \in 1..Len(OptionNames) :
              Has(src, OptionNames[i]) /\ ~Has(allowed_options, OptionNames[i])}
  IN IF U = {} THEN 0 ELSE CHOOSE i \in U : \A j \in U : i <= j

\* C20: every name that holds a value is registered; addOption with a null
\* default registers the name and leaves the values as they are; a
\* copyOptions that fails has saved the options that come before the
\* unknown one, and nothing else.
C20_ValuesAreRegistered ==
  /\ [](DOMAIN options \subseteq DOMAIN allowed_options)
  /\ [][(result'.op = "addOption" /\ result'.value = NullOption) =>
          (Has(allowed_options', result'.name) /\ options' = options)]_vars
  /\ [][(result'.op = "copyOptions" /\ error' # "none") =>
          LET src == result'.value
              k == FirstUnknown(src)
              copied == NamesFrom(1) \ NamesFrom(k)
          IN /\ k > 0
             /\ allowed_options' = allowed_options
             /\ DOMAIN options' = DOMAIN options \cup (copied \cap DOMAIN src)
             /\ \A n \in DOMAIN options' :
                  options'[n] = IF n \in copied /\ Has(src, n)
                                THEN src[n] ELSE options[n]]_vars

\* A copyOptions has failed on an unknown option after it had saved the
\* value of an option that comes before it.
C20_Witness ==
  /\ Failed("copyOptions")
  /\ Has(result.value, "abstol") /\ Has(allowed_options, "abstol")
  /\ Has(result.value, "tf") /\ ~Has(allowed_options, "tf")
  /\ options["abstol"] = result.value["abstol"]

\* ======================================================================
\* Properties of evaluate() and of init()
\* ======================================================================
\* The place of a call in the order of evaluate().
Rank(c) ==
  CASE c = "reset" -> 1 [] c = "integrate" -> 2 [] c = "resetB" -> 3
    [] c = "integrateB" -> 4 [] c = "printStats" -> 5

\* C11: the calls that evaluate() has made come in the order reset,
\* integrate, resetB, integrateB, printStats, each at most once: reset is
\* the first, resetB and integrateB come only after integrate has
\* returned, and integrateB comes right after resetB.
C11_CallOrder ==
  /\ \A i \in 1..(Len(calls) - 1) : Rank(calls[i]) < Rank(calls[i + 1])
  /\ calls # <<>> => calls[1] = "reset"
  /\ \A i \in 1..Len(calls) :
       /\ calls[i] = "integrate" => i = 2
       /\ calls[i] = "resetB" => (i = 3 /\ calls[2] = "integrate")
       /\ calls[i] = "integrateB" => (i = 4 /\ calls[3] = "resetB")
  /\ pc \in {"resetB", "integrateB"} => calls[2] = "integrate"

\* An evaluate() has run its backward phase, printed the statistics and
\* returned.
C11_Witness ==
  /\ pc = "idle" /\ error = "none"
  /\ calls = <<"reset", "integrate", "resetB", "integrateB", "printStats">>

\* The last evaluate() has returned, and it ran the backward phase.
Evaluated == pc = "idle" /\ calls # <<>> /\ error = "none"
BackwardRan ==
  \E i \in 1..(Len(calls) - 1) : calls[i] = "resetB" /\ calls[i + 1] = "integrateB"

\* C12: np is negative as long as init() has not completed; once it has,
\* the eight dimensions are non-negative and no operation changes them;
\* and they are 0 for the backward problem when there is none.
C12_DimensionsResolved ==
  /\ [](phase # "initialized" => np_ < 0)
  /\ [](phase = "initialized" =>
          /\ nx_ >= 0 /\ nz_ >= 0 /\ nq_ >= 0 /\ np_ >= 0
          /\ nrx_ >= 0 /\ nrz_ >= 0 /\ nrq_ >= 0 /\ nrp_ >= 0
          /\ g_.isNull => (nrx_ = 0 /\ nrz_ = 0 /\ nrq_ = 0 /\ nrp_ = 0))
  /\ [][phase = "initialized" => UNCHANGED dims]_vars

\* The conditions on the callbacks under which init() has to fail.
WrongPorts ==
  \/ f_.nin # DAE_NUM_IN \/ f_.nout # DAE_NUM_OUT
  \/ ~g_.isNull /\ (g_.nin # RDAE_NUM_IN \/ g_.nout # RDAE_NUM_OUT)
Mismatch ==
  \/ f_.ode # f_.x \/ f_.alg # f_.z
  \/ ~g_.isNull /\ (g_.x # f_.x \/ g_.z # f_.z \/ g_.p # f_.p)

\* C13: init() raises an error and builds no linear solver when a callback
\* has a wrong number of ports, when the ODE or the algebraic output of the
\* forward callback is not shaped as its x or z input, or when the x, z or
\* p input of the backward callback is not shaped as that of the forward
\* one; with sparse states and well-formed callbacks it completes.
C13_InitFails ==
  /\ []((WrongPorts \/ Mismatch) => (phase = "constructed" /\ buf = NoBuf))
  /\ [][(init /\ (WrongPorts \/ Mismatch)) => error' # "none"]_vars
  /\ [][(init /\ ~dense(f_.x) /\ ~f_.isNull /\ ~WrongPorts /\ ~Mismatch
           /\ (g_.isNull \/ (g_.ode = g_.rx /\ g_.alg = g_.rz))) =>
          (error' = "none" /\ phase' = "initialized" /\ buf' = ZeroBuf(f_, g_))]_vars

\* init() has failed on a backward callback whose x input is not shaped as
\* the one of the forward callback, after it had assigned the dimensions.
C13_Witness ==
  /\ error # "none" /\ phase = "constructed" /\ buf = NoBuf
  /\ ~g_.isNull /\ g_.x # f_.x /\ ~WrongPorts /\ f_.ode = f_.x /\ f_.alg = f_.z
  /\ input_.x0 = f_.x

\* C17: an evaluate() that has returned ran the backward phase exactly
\* when a backward problem is attached.
C17_BackwardIffAttached ==
  Evaluated => (BackwardRan <=> ~g_.isNull)

\* ======================================================================
\* Information flow of the structural propagation
\* ======================================================================
\* The bit vectors of n elements.
BitVectors(n) == [1..n -> BOOLEAN]

\* The inputs that agree with the integrator's on every input but those
\* named in free, which hold any bits.
InputsFreeOn(free) ==
  {in \in [x0 : BitVectors(nx_), p : BitVectors(np_), z0 : BitVectors(nz_),
           rx0 : BitVectors(nrx_), rp : BitVectors(nrp_), rz0 : BitVectors(nrz_)] :
     \A n \in DOMAIN in : n \in free \/ \A i \in 1..Len(bv.in[n]) : in[n][i] = bv.in[n][i]}

\* The outputs that spEvaluate(true) leaves when run on the inputs in, the
\* rest being as in the integrator, and when run on them with outputs that
\* hold no bit.
ForwardOn(in) == spForward([Bits EXCEPT !.in = in]).out
ForwardFromZero(in) ==
  spForward([Bits EXCEPT !.in = in, !.out = ZeroBV(input_, output_).out]).out

\* Two sets of outputs hold the same bits on the outputs named.
SameOn(names, a, b) ==
  \A n \in names : \A i \in 1..Len(a[n]) : a[n][i] = b[n][i]

\* The outputs r1 and r2 of two runs on the inputs in hold the bits of the
\* outputs post on xf, zf and qf, and on every output when in holds the bits
\* of the integrator's rx0 and rp.
Agree(in, r1, r2, post) ==
  /\ SameOn({"xf", "zf", "qf"}, r1, post)
  /\ SameOn({"xf", "zf", "qf"}, r2, post)
  /\ (SameOn({"rx0", "rp"}, in, bv.in) =>
        (SameOn(DOMAIN post, r1, post) /\ SameOn(DOMAIN post, r2, post)))

\* C18: the bits that spEvaluate(true) leaves on xf, zf and qf are those of
\* any run that holds the same bits on x0 and p, whatever it holds on rx0,
\* rp, z0 and rz0; the bits it leaves on rxf, rzf and rqf are those of any
\* run that holds the same bits on x0, p, rx0 and rp, whatever it holds on
\* z0 and rz0.
C18_ForwardNoninterference ==
  [][(ops' = Ran("fwd") /\ SpEvaluateFwd) =>
       \A in \in InputsFreeOn({"rx0", "rp", "z0", "rz0"}) :
         Agree(in, ForwardOn(in), ForwardFromZero(in), bv'.out)]_vars

\* A forward propagation has run with a bit on the backward state and none
\* on x0 and p: rxf holds a bit and xf holds none.
C18_Witness ==
  /\ RanFwd
  /\ AnyBit(bv.in.rx0) /\ ~AnyBit(bv.in.x0) /\ ~AnyBit(bv.in.p)
  /\ Len(bv.out.xf) > 0 /\ ~AnyBit(bv.out.xf)
  /\ AnyBit(bv.out.rxf)

\* Every element of a buffer holds the bit, or none does.
AllBits(v) == \A i \in 1..Len(v) : v[i]

\* C19: after spEvaluate(false), a bit held by any of the six outputs is
\* held by every element of x0 and p; a bit held by rxf, rqf or rzf is held
\* by every element of rx0 and rp; and rx0 and rp hold no bit when only xf,
\* qf or zf hold one.
C19_ReverseSound ==
  RanRev =>
    LET back == AnyBit(bv.out.rxf) \/ AnyBit(bv.out.rqf) \/ AnyBit(bv.out.rzf)
        any == back \/ AnyBit(bv.out.xf) \/ AnyBit(bv.out.qf) \/ AnyBit(bv.out.zf)
    IN /\ any => (AllBits(bv.in.x0) /\ AllBits(bv.in.p))
       /\ back => (AllBits(bv.in.rx0) /\ AllBits(bv.in.rp))
       /\ ~back => (~AnyBit(bv.in.rx0) /\ ~AnyBit(bv.in.rp))
====
